---- MODULE Spec2Model ----
(***************************************************************************)
(* Verification model of hpcugent/vsc-utils.                               *)
(*                                                                         *)
(*   SpecLock   lib/vsc/utils/timestamp_pid_lockfile.py: several processes *)
(*              running acquire() and release() on one lock path, one      *)
(*              action per filesystem step.                                *)
(*   SpecCache  lib/vsc/utils/cache.py: one FileCache instance at a time   *)
(*              on one cache file, and NagiosReporter.cache on that file.  *)
(*                                                                         *)
(*   SpecNagios lib/vsc/utils/nagios.py: SimpleNagios(message=..., metrics)  *)
(*              evaluating its metrics and exiting through real_exit.      *)
(*   SpecCLI    lib/vsc/utils/script_tools.py: one run of CLIBase.main     *)
(*              with its mixins, or of OldCLI over ExtendedSimpleOption,   *)
(*              alone on its lock file.                                    *)
(*                                                                         *)
(* The clock is an integer number of clock readings: two calls of          *)
(* time.time() with no Tick between them return the same reading.  Every   *)
(* run starts at reading 1; what earlier runs left behind is stamped 0.    *)
(***************************************************************************)
EXTENDS Integers, Sequences, FiniteSets, TLC

\* ------------------------------------------------------------------ bounds
NumProcs == 2
MaxTime == 3
MaxCalls == 3
MaxOps == 4
NumMetrics == 2
MaxAttrs == 3
MaxRuns == 3
MaxMsgs == 3
MaxRangeLen == 4

VARIABLES
    now,        \* the clock reading, time.time()
    path,       \* lock path: NoFile, or the creator of the file linked there
    content,    \* content[c]: what the file created by c holds
    threshold,  \* TimestampedPidLockfile.threshold
    pc,         \* pc[p]: where process p is inside acquire() / release()
    rd,         \* rd[p]: the (pid, timestamp) p read from the lock file
    tmo,        \* tmo[p]: the local variable timeout of p's acquire()
    result,     \* result[p]: how p's last acquire()/release() ended
    holds,      \* holds[p]: p's acquire() returned and p has not released
    calls       \* number of acquire()/release() calls started so far

VARIABLES
    disk,       \* the cache file: [kind, data]
    inst,       \* "none": no FileCache object yet, "open", "closed"
    shelf,      \* FileCache.shelf
    new_shelf,  \* FileCache.new_shelf
    retain_old, \* FileCache.retain_old
    aliased,    \* new_shelf and shelf are one dict object (close(), line 170)
    diskAtOpen, \* history: the entries the file held when the object was made
    touched,    \* history: the keys passed to update() since then
    lastOp,     \* history: the last cache operation and what it returned
    ops         \* number of cache operations so far

VARIABLES
    kwargs,     \* the keyword arguments SimpleNagios is constructed with
    nagios,     \* the process running SimpleNagios: what it printed, its exit
    report,     \* the process running NagiosReporter.report_and_exit
    nrange,     \* the range string NagiosRange is constructed with, by character
    alert_test, \* the value passed to NagiosRange.alert
    range_alert \* what NagiosRange(nrange).alert(test) gave

VARIABLES
    cfg,        \* the script: its class, its options, what its environment does
    cli         \* the run: where it is, what it did, how it ended

lockVars == <<path, content, threshold, pc, rd, tmo, result, holds, calls>>
cacheVars == <<disk, inst, shelf, new_shelf, retain_old, aliased, diskAtOpen, touched, lastOp, ops>>

nagiosVars == <<kwargs, nagios, report, nrange, alert_test, range_alert>>
cliVars == <<cfg, cli>>
nonLockVars == <<cacheVars, nagiosVars, cliVars>>
nonCacheVars == <<lockVars, nagiosVars, cliVars>>
nonNagiosVars == <<lockVars, cacheVars, cliVars>>

vars == <<now, lockVars, cacheVars, nagiosVars, cliVars>>

\* ------------------------------------------------------- the lock file
Procs == 1..NumProcs
\* creator 0 is a process of an earlier run that left its file behind
Ext == 0
DeadPid == 0
NoFile == -1
Creators == {Ext} \cup Procs

EmptyContent == [kind |-> "empty", pid |-> 0, ts |-> 0]
CorruptContent == [kind |-> "corrupt", pid |-> 0, ts |-> 0]
FullContent(pid, ts) == [kind |-> "full", pid |-> pid, ts |-> ts]
NoRead == [pid |-> 0, ts |-> 0]

\* os.getpid()
getpid(p) == p

\* what the program may find at the lock path when it starts
InitialLockFiles == {EmptyContent, CorruptContent, FullContent(DeadPid, 0)}
ThresholdValues == {0, 1}
\* acquire(timeout=None): None and 0 are both falsy
TimeoutArgs == {0, 2}

\* is_locked(): os.path.exists(self.path)
is_locked == path # NoFile

\* acquire(): if not timeout: timeout = self.threshold
EffectiveTimeout(timeout) == IF timeout = 0 THEN threshold ELSE timeout

IsStale_mut(timestamp, timeout) == now - timestamp >= timeout

\* acquire(): time.time() - timestamp > timeout
IsStale(timestamp, timeout) == now - timestamp > timeout

\* _find_and_kill(pid): fields[0] is a string and pid an int, so the
\* comparison never holds and no process is ever signalled
find_and_kill(pid) == FALSE

\* the call returns or raises: its local variables are gone
Finish(p, res) ==
    /\ pc' = [pc EXCEPT ![p] = "idle"]
    /\ result' = [result EXCEPT ![p] = res]
    /\ rd' = [rd EXCEPT ![p] = NoRead]
    /\ tmo' = [tmo EXCEPT ![p] = 0]

\* the call goes on to its next step
Goto(p, label) ==
    /\ pc' = [pc EXCEPT ![p] = label]
    /\ UNCHANGED <<result, rd, tmo>>

\* the lock file plays no part
LockIdle ==
    /\ path = NoFile
    /\ content = [c \in Creators |-> EmptyContent]
    /\ threshold = 0
    /\ pc = [p \in Procs |-> "idle"]
    /\ rd = [p \in Procs |-> NoRead]
    /\ tmo = [p \in Procs |-> 0]
    /\ result = [p \in Procs |-> "none"]
    /\ holds = [p \in Procs |-> FALSE]
    /\ calls = 0

LockInitOver(thresholds) ==
    /\ \/ /\ path = NoFile
          /\ content = [c \in Creators |-> EmptyContent]
       \/ /\ path = Ext
          /\ \E f \in InitialLockFiles :
                content = [c \in Creators |-> IF c = Ext THEN f ELSE EmptyContent]
    /\ threshold \in thresholds
    /\ pc = [p \in Procs |-> "idle"]
    /\ rd = [p \in Procs |-> NoRead]
    /\ tmo = [p \in Procs |-> 0]
    /\ result = [p \in Procs |-> "none"]
    /\ holds = [p \in Procs |-> FALSE]
    /\ calls = 0

LockInit == LockInitOver(ThresholdValues)

\* the clock advances
Tick ==
    /\ now < MaxTime
    /\ now' = now + 1
    /\ UNCHANGED <<lockVars, cacheVars, nagiosVars, cliVars>>

\* acquire(), first _write_pid_timestamp_file: os.open(O_CREAT | O_EXCL)
AcquireCreate(p, timeout) ==
    /\ pc[p] = "idle"
    /\ calls < MaxCalls
    /\ calls' = calls + 1
    /\ tmo' = [tmo EXCEPT ![p] = EffectiveTimeout(timeout)]
    /\ result' = [result EXCEPT ![p] = "none"]
    /\ IF path = NoFile
       THEN /\ path' = p
            /\ content' = [content EXCEPT ![p] = EmptyContent]
            /\ pc' = [pc EXCEPT ![p] = "write"]
       ELSE /\ pc' = [pc EXCEPT ![p] = "read"]
            /\ UNCHANGED <<path, content>>
    /\ UNCHANGED <<now, nonLockVars, threshold, rd, holds>>

\* _write_pid_timestamp_file: pidfile.write(pid, int(time.time())), on the
\* descriptor of the file p created; acquire() then returns
AcquireWrite(p) ==
    /\ pc[p] = "write"
    /\ content' = [content EXCEPT ![p] = FullContent(getpid(p), now)]
    /\ holds' = [holds EXCEPT ![p] = TRUE]
    /\ Finish(p, "ok")
    /\ UNCHANGED <<now, nonLockVars, path, threshold, calls>>

\* acquire(), errno == EEXIST: _read_pid_timestamp_file(self.path)
AcquireRead(p) ==
    /\ pc[p] = "read"
    /\ IF path = NoFile
       THEN \* returns None, and (pid, timestamp) = None raises TypeError
            Finish(p, "TypeError")
       ELSE IF content[path].kind # "full"
       THEN Finish(p, "LockFileReadError")
       ELSE /\ rd' = [rd EXCEPT ![p] = [pid |-> content[path].pid, ts |-> content[path].ts]]
            /\ pc' = [pc EXCEPT ![p] = "check"]
            /\ UNCHANGED <<result, tmo>>
    /\ UNCHANGED <<now, nonLockVars, path, content, threshold, holds, calls>>

\* acquire(): if time.time() - timestamp > timeout, else raise LockFailed
AcquireCheck(p) ==
    /\ pc[p] = "check"
    /\ IF IsStale(rd[p].ts, tmo[p])
       THEN Goto(p, "unlink")
       ELSE Finish(p, "LockFailed")
    /\ UNCHANGED <<now, nonLockVars, path, content, threshold, holds, calls>>

AcquireUnlink_mut(p) ==
    /\ pc[p] = "unlink"
    /\ Goto(p, "retry")
    /\ UNCHANGED <<now, nonLockVars, path, holds, content, threshold, calls>>

\* acquire(): _find_and_kill(pid); os.unlink(self.path)
AcquireUnlink(p) ==
    /\ pc[p] = "unlink"
    /\ IF path = NoFile
       THEN \* FileNotFoundError leaves acquire() from inside the handler
            /\ Finish(p, "OSError")
            /\ UNCHANGED <<path, holds>>
       ELSE /\ path' = NoFile
            /\ holds' = [q \in Procs |->
                  holds[q] /\ ~(getpid(q) = rd[p].pid /\ find_and_kill(rd[p].pid))]
            /\ Goto(p, "retry")
    /\ UNCHANGED <<now, nonLockVars, content, threshold, calls>>

AcquireRetry_mut(p) ==
    /\ pc[p] = "retry"
    /\ IF path = NoFile
       THEN /\ path' = p
            /\ content' = [content EXCEPT ![p] = EmptyContent]
            /\ Goto(p, "write")
       ELSE /\ Goto(p, "read")
            /\ UNCHANGED <<path, content>>
    /\ UNCHANGED <<now, nonLockVars, threshold, holds, calls>>

\* acquire(), second _write_pid_timestamp_file: os.open(O_CREAT | O_EXCL);
\* any exception is swallowed and LockFailed raised
AcquireRetry(p) ==
    /\ pc[p] = "retry"
    /\ IF path = NoFile
       THEN /\ path' = p
            /\ content' = [content EXCEPT ![p] = EmptyContent]
            /\ Goto(p, "write")
       ELSE /\ Finish(p, "LockFailed")
            /\ UNCHANGED <<path, content>>
    /\ UNCHANGED <<now, nonLockVars, threshold, holds, calls>>

\* release(): if not self.is_locked(): raise NotLocked
ReleaseIsLocked(p) ==
    /\ pc[p] = "idle"
    /\ calls < MaxCalls
    /\ calls' = calls + 1
    /\ IF is_locked
       THEN /\ pc' = [pc EXCEPT ![p] = "rel_exists"]
            /\ result' = [result EXCEPT ![p] = "none"]
            /\ UNCHANGED <<rd, tmo>>
       ELSE Finish(p, "NotLocked")
    /\ UNCHANGED <<now, nonLockVars, path, content, threshold, holds>>

\* release() -> i_am_locking(): if self.is_locked()
ReleaseExists(p) ==
    /\ pc[p] = "rel_exists"
    /\ IF is_locked
       THEN Goto(p, "rel_read")
       ELSE Finish(p, "NotMyLock")
    /\ UNCHANGED <<now, nonLockVars, path, content, threshold, holds, calls>>

\* i_am_locking(): (pid, _) = _read_pid_timestamp_file(self.path);
\* return pid == os.getpid()
ReleaseRead(p) ==
    /\ pc[p] = "rel_read"
    /\ IF path = NoFile
       THEN Finish(p, "TypeError")
       ELSE IF content[path].kind # "full"
       THEN Finish(p, "LockFileReadError")
       ELSE IF content[path].pid # getpid(p)
       THEN Finish(p, "NotMyLock")
       ELSE Goto(p, "rel_remove")
    /\ UNCHANGED <<now, nonLockVars, path, content, threshold, holds, calls>>

\* release(): os.remove(self.path)
ReleaseRemove(p) ==
    /\ pc[p] = "rel_remove"
    /\ IF path = NoFile
       THEN /\ Finish(p, "OSError")
            /\ UNCHANGED <<path, holds>>
       ELSE /\ path' = NoFile
            /\ holds' = [holds EXCEPT ![p] = FALSE]
            /\ Finish(p, "released")
    /\ UNCHANGED <<now, nonLockVars, content, threshold, calls>>

LockNext ==
    \/ Tick
    \/ \E p \in Procs, t \in TimeoutArgs : AcquireCreate(p, t)
    \/ \E p \in Procs : AcquireWrite(p)
    \/ \E p \in Procs : AcquireRead(p)
    \/ \E p \in Procs : AcquireCheck(p)
    \/ \E p \in Procs : AcquireUnlink(p)
    \/ \E p \in Procs : AcquireRetry(p)
    \/ \E p \in Procs : ReleaseIsLocked(p)
    \/ \E p \in Procs : ReleaseExists(p)
    \/ \E p \in Procs : ReleaseRead(p)
    \/ \E p \in Procs : ReleaseRemove(p)


\* ------------------------------------------------------------ FileCache
\* dictionary keys: Python ints and strings are different keys
IntKey(n) == [t |-> "int", n |-> n, s |-> ""]
StrKey(str) == [t |-> "str", n |-> 0, s |-> str]

NAGIOS_EXIT_OK == <<0, "OK">>
NAGIOS_EXIT_WARNING == <<1, "WARNING">>
NAGIOS_EXIT_CRITICAL == <<2, "CRITICAL">>
NAGIOS_EXIT_UNKNOWN == <<3, "UNKNOWN">>

\* the key NagiosReporter stores its status under
NagiosKey == StrKey("nagios")
\* the keys callers pass to update() and load()
CacheKeys == {IntKey(1), NagiosKey}
\* the payloads callers store: (nagios_exit, nagios_message)
CacheValues == {<<NAGIOS_EXIT_OK, "m1">>, <<NAGIOS_EXIT_CRITICAL, "m2">>}
CacheThresholds == {-1, 0, 1}

\* dict.get(key, None) returning None
None == [ts |-> -1, val |-> <<>>]
Entry(ts, val) == [ts |-> ts, val |-> val]
EmptyDict == [k \in {} |-> None]
Get(d, k) == IF k \in DOMAIN d THEN d[k] ELSE None
Put(d, k, e) == [x \in DOMAIN d \cup {k} |-> IF x = k THEN e ELSE d[x]]
\* dict.update(other)
DictUpdate(d, other) ==
    [x \in DOMAIN d \cup DOMAIN other |-> IF x \in DOMAIN other THEN other[x] ELSE d[x]]

\* jsonpickle.encode(d) without keys=True: a key that is not a string is
\* written as its string form; tuples and numbers of the values are kept
EncodeKey(k) == IF k.t = "int" THEN StrKey(ToString(k.n)) ELSE k
\* two keys with one string form: the one inserted last is written last and
\* wins; string keys only come from the file, so they were inserted first
jsonpickle_encode(d) ==
    [x \in {EncodeKey(k) : k \in DOMAIN d} |->
        LET ints == {k \in DOMAIN d : k.t = "int" /\ EncodeKey(k) = x}
        IN IF ints # {} THEN d[CHOOSE k \in ints : TRUE] ELSE d[x]]
\* jsonpickle.decode(s): the keys of a JSON object are strings
jsonpickle_decode(data) == data

AbsentFile == [kind |-> "absent", data |-> EmptyDict]
TruncatedFile == [kind |-> "truncated", data |-> EmptyDict]
\* not gzip, and not a pickle either: pickle.load raises UnpicklingError
GarbageFile == [kind |-> "garbage", data |-> EmptyDict]
\* gzip whose content jsonpickle.decode rejects with ValueError
BadJsonFile == [kind |-> "badjson", data |-> EmptyDict]
OkFile(data) == [kind |-> "ok", data |-> data]

\* FileCache.__init__ after "if not retain_old: return": read the file; a
\* missing file, a file that is not gzip and undecodable JSON give {}
ReadShelf(file) == IF file.kind = "ok" THEN jsonpickle_decode(file.data) ELSE EmptyDict

\* FileCache.__init__: the shelf of a new object
InitShelf(file, retain) == IF retain THEN ReadShelf(file) ELSE EmptyDict

\* what a FileCache(filename) made now would load for every key
Persisted == ReadShelf(disk)

\* FileCache.load(key): new_shelf.get(key) or shelf.get(key)
load_from(ns, sh, key) == IF Get(ns, key) # None THEN Get(ns, key) ELSE Get(sh, key)
load(key) == load_from(new_shelf, shelf, key)

IsOlder_mut(ts, thr) == now - ts >= thr

\* FileCache.update(): is the existing entry older than the threshold
IsOlder(ts, thr) == now - ts > thr

\* FileCache.update(key, data, threshold): the entry stored and the value returned
update_entry(old, data, thr) ==
    IF old # None
    THEN IF IsOlder(old.ts, thr)
         THEN [entry |-> Entry(now, data), ret |-> TRUE]
         ELSE [entry |-> old, ret |-> FALSE]
    ELSE [entry |-> Entry(now, data), ret |-> TRUE]

\* FileCache.close(): the dict that is written
close_shelf(ns, sh, retain) == IF retain THEN DictUpdate(sh, ns) ELSE ns

Op(name, key, val, thr, ret) == [op |-> name, key |-> key, val |-> val, thr |-> thr, ret |-> ret]
NoKey == StrKey("")
NoOp == Op("none", NoKey, <<>>, 0, FALSE)

InitialCacheFiles ==
    {AbsentFile, GarbageFile, BadJsonFile,
     OkFile(Put(EmptyDict, NagiosKey, Entry(0, <<NAGIOS_EXIT_OK, "m1">>))),
     OkFile(Put(EmptyDict, StrKey("1"), Entry(0, <<NAGIOS_EXIT_OK, "m1">>)))}

CacheIdle ==
    /\ disk = AbsentFile
    /\ inst = "none"
    /\ shelf = EmptyDict
    /\ new_shelf = EmptyDict
    /\ retain_old = TRUE
    /\ aliased = FALSE
    /\ diskAtOpen = EmptyDict
    /\ touched = {}
    /\ lastOp = NoOp
    /\ ops = 0

CacheInit ==
    /\ disk \in InitialCacheFiles
    /\ inst = "none"
    /\ shelf = EmptyDict
    /\ new_shelf = EmptyDict
    /\ retain_old = TRUE
    /\ aliased = FALSE
    /\ diskAtOpen = EmptyDict
    /\ touched = {}
    /\ lastOp = NoOp
    /\ ops = 0

CountOp(name, key, val, thr, ret) ==
    /\ ops < MaxOps
    /\ ops' = ops + 1
    /\ lastOp' = Op(name, key, val, thr, ret)

CacheTick ==
    /\ now < MaxTime
    /\ now' = now + 1
    /\ lastOp' = Op("tick", NoKey, <<>>, 0, FALSE)
    /\ UNCHANGED <<disk, inst, shelf, new_shelf, retain_old, aliased, diskAtOpen, touched, ops>>
    /\ UNCHANGED nonCacheVars

\* FileCache.__init__: the only exception that leaves the constructor is the
\* one of log.raiseException in the UnpicklingError handler, reached when the
\* file is read (retain_old), is not gzip and is no pickle; the ValueError of
\* jsonpickle.decode is handled without looking at raise_unpickable
init_raises(file, retain, raise_unpickable) ==
    retain /\ raise_unpickable /\ file.kind = "garbage"

\* the name a constructor call is recorded under
InitOp(raise_unpickable, raised) ==
    IF raised THEN "init_strict_raised"
    ELSE IF raise_unpickable THEN "init_strict" ELSE "init"

\* FileCache(filename, retain_old, raise_unpickable); when it raises there is
\* no new object and the variable keeps what it referred to
Construct(retain, raise_unpickable) ==
    LET raised == init_raises(disk, retain, raise_unpickable)
    IN /\ CountOp(InitOp(raise_unpickable, raised), NoKey, <<>>, 0, retain)
       /\ IF raised
          THEN UNCHANGED <<inst, retain_old, new_shelf, shelf, aliased, diskAtOpen, touched>>
          ELSE /\ inst' = "open"
               /\ retain_old' = retain
               /\ new_shelf' = EmptyDict
               /\ shelf' = InitShelf(disk, retain)
               /\ aliased' = FALSE
               /\ diskAtOpen' = ReadShelf(disk)
               /\ touched' = {}
       /\ UNCHANGED <<now, disk>>
       /\ UNCHANGED nonCacheVars

\* FileCache.update(key, data, threshold)
Update(key, data, thr) ==
    /\ inst # "none"
    /\ LET u == update_entry(load(key), data, thr)
       IN /\ CountOp("update", key, data, thr, u.ret)
          /\ new_shelf' = Put(new_shelf, key, u.entry)
          /\ shelf' = IF aliased THEN Put(shelf, key, u.entry) ELSE shelf
    /\ touched' = touched \cup {key}
    /\ UNCHANGED <<now, disk, inst, retain_old, aliased, diskAtOpen>>
    /\ UNCHANGED nonCacheVars

\* FileCache.retain()
Retain ==
    /\ inst # "none"
    /\ CountOp("retain", NoKey, <<>>, 0, TRUE)
    /\ retain_old' = TRUE
    /\ UNCHANGED <<now, disk, inst, shelf, new_shelf, aliased, diskAtOpen, touched>>
    /\ UNCHANGED nonCacheVars

\* FileCache.discard()
Discard ==
    /\ inst # "none"
    /\ CountOp("discard", NoKey, <<>>, 0, FALSE)
    /\ retain_old' = FALSE
    /\ UNCHANGED <<now, disk, inst, shelf, new_shelf, aliased, diskAtOpen, touched>>
    /\ UNCHANGED nonCacheVars

\* FileCache.close() when open(self.filename, 'wb') raises: nothing is touched
CloseOpenFails ==
    /\ inst # "none"
    /\ CountOp("close_not_opened", NoKey, <<>>, 0, FALSE)
    /\ UNCHANGED <<now, disk, inst, shelf, new_shelf, retain_old, aliased, diskAtOpen, touched>>
    /\ UNCHANGED nonCacheVars

Close_mut(written) ==
    /\ inst # "none"
    /\ CountOp(IF written THEN "close" ELSE "close_failed", NoKey, <<lastOp.op>>, 0, written)
    /\ LET out == close_shelf(new_shelf, shelf, retain_old)
       IN /\ new_shelf' = EmptyDict
          /\ shelf' = IF retain_old \/ aliased THEN out ELSE shelf
          /\ disk' = IF written THEN OkFile(jsonpickle_encode(out)) ELSE TruncatedFile
    /\ aliased' = FALSE
    /\ inst' = IF written THEN "closed" ELSE inst
    /\ UNCHANGED <<now, retain_old, diskAtOpen, touched>>
    /\ UNCHANGED nonCacheVars

\* FileCache.close(): open(self.filename, 'wb') empties the file, the shelves
\* are merged, and the write either completes or raises (disk full, ...)
Close(written) ==
    /\ inst # "none"
    /\ CountOp(IF written THEN "close" ELSE "close_failed", NoKey, <<lastOp.op>>, 0, written)
    /\ LET out == close_shelf(new_shelf, shelf, retain_old)
       IN /\ new_shelf' = out
          /\ shelf' = IF retain_old \/ aliased THEN out ELSE shelf
          /\ disk' = IF written THEN OkFile(jsonpickle_encode(out)) ELSE TruncatedFile
    /\ aliased' = (aliased \/ retain_old)
    /\ inst' = IF written THEN "closed" ELSE inst
    /\ UNCHANGED <<now, retain_old, diskAtOpen, touched>>
    /\ UNCHANGED nonCacheVars

\* NagiosReporter.cache(nagios_exit, nagios_message): FileCache(self.filename),
\* update('nagios', (nagios_exit, nagios_message), 0), close(): the file written
cache_file(nagios_exit, nagios_message) ==
    LET sh == InitShelf(disk, TRUE)
        u == update_entry(load_from(EmptyDict, sh, NagiosKey),
                          <<nagios_exit, nagios_message>>, 0)
        ns == Put(EmptyDict, NagiosKey, u.entry)
    IN OkFile(jsonpickle_encode(close_shelf(ns, sh, TRUE)))

\* what the second try block of NagiosReporter.cache meets: the nagios user
\* exists and the process is root, the process is not root, os.chmod or
\* os.chown raises OSError, pwd.getpwnam raises KeyError
PermOutcomes == {"root", "not_root", "chmod_fails", "chown_fails", "no_user"}

\* pwd.getpwnam, os.chmod, os.geteuid, os.chown of NagiosReporter.cache: the
\* value cache() returns or the exception that leaves it; only the missing
\* root privileges are a warning, an OSError is raised again as OSError and
\* the KeyError of getpwnam is not caught
set_permissions(perm) ==
    CASE perm = "root" -> "True"
      [] perm = "not_root" -> "True"
      [] perm \in {"chmod_fails", "chown_fails"} -> "OSError"
      [] perm = "no_user" -> "KeyError"

\* the name a call of cache() is recorded under
CacheOp(perm) == IF perm \in {"root", "not_root"} THEN "cache" ELSE "cache_" \o perm

\* NagiosReporter.cache(nagios_exit, nagios_message); the file is written
\* before the permissions are set
NagiosReporterCache(nagios_exit, nagios_message, perm) ==
    /\ CountOp(CacheOp(perm), NagiosKey, <<nagios_exit, nagios_message>>, 0,
               set_permissions(perm) = "True")
    /\ disk' = cache_file(nagios_exit, nagios_message)
    /\ UNCHANGED <<now, inst, shelf, new_shelf, retain_old, aliased, diskAtOpen, touched>>
    /\ UNCHANGED nonCacheVars

CacheNext ==
    \/ CacheTick
    \/ \E r \in BOOLEAN, strict \in BOOLEAN : Construct(r, strict)
    \/ \E k \in CacheKeys, v \in CacheValues, t \in CacheThresholds : Update(k, v, t)
    \/ Retain
    \/ Discard
    \/ CloseOpenFails
    \/ \E w \in BOOLEAN : Close(w)
    \/ \E v \in CacheValues, perm \in PermOutcomes : NagiosReporterCache(v[1], v[2], perm)

\* --------------------------------------------- NagiosRange, SimpleNagios
\* a range [@][start:][end]; its parts as NagiosRange.parse's regular
\* expression captures them
Omitted == [kind |-> "omitted", n |-> 0]
Tilde == [kind |-> "tilde", n |-> 0]
Num(n) == [kind |-> "num", n |-> n]
Range(neg, start, end) == [given |-> TRUE, neg |-> neg, start |-> start, end |-> end]
\* the keyword argument <name>_warning or <name>_critical is not passed
Absent == [given |-> FALSE, neg |-> FALSE, start |-> Omitted, end |-> Omitted]

\* str(nrange), as the f-strings print it
RangeText(r) ==
    IF ~r.given THEN ""
    ELSE (IF r.neg THEN "@" ELSE "")
         \o (IF r.start.kind = "omitted" THEN ""
             ELSE IF r.start.kind = "tilde" THEN "~:"
             ELSE ToString(r.start.n) \o ":")
         \o (IF r.end.kind = "omitted" THEN "" ELSE ToString(r.end.n))

Inf == [inf |-> TRUE, n |-> 0]
Fin(n) == [inf |-> FALSE, n |-> n]

\* NagiosRange.parse: start is 0 when omitted and None (-inf) for '~', end is
\* None (+inf) when omitted
parse(r) ==
    [neg |-> r.neg,
     start |-> IF r.start.kind = "omitted" THEN Fin(0)
               ELSE IF r.start.kind = "tilde" THEN Inf
               ELSE Fin(r.start.n),
     end |-> IF r.end.kind = "omitted" THEN Inf ELSE Fin(r.end.n)]

\* range_fn(test): start <= test <= end, negated with '@'
range_fn(r, test) ==
    LET p == parse(r)
        start_res == IF p.start.inf THEN TRUE ELSE p.start.n <= test
        end_res == IF p.end.inf THEN TRUE ELSE test <= p.end.n
        tmp_res == start_res /\ end_res
    IN IF p.neg THEN ~tmp_res ELSE tmp_res

\* NagiosRange(nrange).alert(test)
alert(r, test) == ~range_fn(r, test)

\* the characters range strings are made of here
RangeChars == {"@", "~", ":", "-", "1", "5"}
\* the class [0-9.-] of the regular expression, within RangeChars
NumChars == {"-", "1", "5"}
Digit(c) == IF c = "1" THEN 1 ELSE 5
RangeStrings == UNION {[1..n -> RangeChars] : n \in 0..MaxRangeLen}
TestValues == -6..16

\* [0-9.-]+
IsNumChars(txt) == Len(txt) > 0 /\ \A i \in DOMAIN txt : txt[i] \in NumChars

\* reg.search(nrange) and r.groupdict(): the groups neg, start and end, an
\* unmatched group (None) being the empty text; a is the length of the '@'
\* group and c the place of the ':' that ends the start group, 0 without one
reg_search_mut(s) ==
    LET n == Len(s)
        fits(a, c) ==
            /\ a <= n /\ (a = 1 => s[1] = "@")
            /\ c = 0 \/ (/\ c > a /\ s[c] = ":"
                          /\ LET st == SubSeq(s, a + 1, c - 1)
                             IN st = <<"~">> \/ IsNumChars(st))
            /\ LET e == SubSeq(s, (IF c = 0 THEN a ELSE c) + 1, n)
               IN e = <<>> \/ IsNumChars(e)
        cands == {ac \in (0..1) \X (0..n) : fits(ac[1], ac[2])}
    IN IF cands = {} THEN [matched |-> FALSE, neg |-> FALSE, start |-> <<>>, end |-> <<>>]
       ELSE LET ac == CHOOSE x \in cands : TRUE
            IN [matched |-> TRUE, neg |-> FALSE,
                start |-> IF ac[2] = 0 THEN <<>> ELSE SubSeq(s, ac[1] + 1, ac[2] - 1),
                end |-> SubSeq(s, (IF ac[2] = 0 THEN ac[1] ELSE ac[2]) + 1, n)]

reg_search(s) ==
    LET n == Len(s)
        fits(a, c) ==
            /\ a <= n /\ (a = 1 => s[1] = "@")
            /\ c = 0 \/ (/\ c > a /\ s[c] = ":"
                          /\ LET st == SubSeq(s, a + 1, c - 1)
                             IN st = <<"~">> \/ IsNumChars(st))
            /\ LET e == SubSeq(s, (IF c = 0 THEN a ELSE c) + 1, n)
               IN e = <<>> \/ IsNumChars(e)
        cands == {ac \in (0..1) \X (0..n) : fits(ac[1], ac[2])}
    IN IF cands = {} THEN [matched |-> FALSE, neg |-> FALSE, start |-> <<>>, end |-> <<>>]
       ELSE LET ac == CHOOSE x \in cands : TRUE
            IN [matched |-> TRUE, neg |-> ac[1] = 1,
                start |-> IF ac[2] = 0 THEN <<>> ELSE SubSeq(s, ac[1] + 1, ac[2] - 1),
                end |-> SubSeq(s, (IF ac[2] = 0 THEN ac[1] ELSE ac[2]) + 1, n)]

\* float(txt) succeeds: an optional sign and digits
IsFloat(txt) ==
    LET d == IF Len(txt) > 0 /\ txt[1] = "-" THEN Tail(txt) ELSE txt
    IN Len(d) > 0 /\ \A i \in DOMAIN d : d[i] # "-"

RECURSIVE Digits(_)
Digits(d) == IF d = <<>> THEN 0 ELSE 10 * Digits(SubSeq(d, 1, Len(d) - 1)) + Digit(d[Len(d)])

\* float(txt)
float(txt) == IF txt[1] = "-" THEN 0 - Digits(Tail(txt)) ELSE Digits(txt)

\* the exception that leaves NagiosRange.parse, with the text its message
\* carries
Raised(error, arg) == [ok |-> FALSE, range |-> Absent, error |-> error, arg |-> arg]

\* NagiosRange.parse(nrange) up to "def range_fn": the parts of the range, or
\* the exception of a string that does not match (self.log.Error is called
\* before "raise ValueError(nrange)" and a logger has no attribute Error) or
\* the ValueError of a float() that fails
parse_text(s) ==
    LET r == reg_search(s)
    IN IF ~r.matched THEN Raised("AttributeError", <<"E", "r", "r", "o", "r">>)
       ELSE IF r.start # <<>> /\ r.start # <<"~">> /\ ~IsFloat(r.start)
       THEN Raised("ValueError", r.start)
       ELSE IF r.end # <<>> /\ ~IsFloat(r.end) THEN Raised("ValueError", r.end)
       ELSE [ok |-> TRUE, error |-> "", arg |-> <<>>,
             range |-> Range(r.neg,
                             IF r.start = <<>> THEN Omitted
                             ELSE IF r.start = <<"~">> THEN Tilde
                             ELSE Num(float(r.start)),
                             IF r.end = <<>> THEN Omitted ELSE Num(float(r.end)))]

RangeInit ==
    /\ nrange \in RangeStrings
    /\ alert_test \in TestValues
    /\ range_alert = "none"

\* the metric names, in sorted order
MetricName(i) == "value" \o ToString(i - 1)
MetricIds == 1..NumMetrics
MetricValues == {3, 7, 15}
MetricRanges == {Absent, Range(FALSE, Omitted, Num(5)), Range(FALSE, Omitted, Num(10)),
                 Range(TRUE, Num(5), Num(10))}
Messages == {"hello", "all fine"}
Metric(value, warning, critical) == [value |-> value, warning |-> warning, critical |-> critical]

\* ', '.join(names) over the ids of ids in sorted order
RECURSIVE JoinNames(_, _)
JoinNames(ids, from) ==
    IF from > NumMetrics THEN ""
    ELSE LET rest == JoinNames(ids, from + 1)
         IN IF from \notin ids THEN rest
            ELSE IF \E j \in ids : j > from THEN MetricName(from) \o ", " \o rest
            ELSE MetricName(from)

\* SimpleNagios._eval, first loop: the metrics whose critical range alerts
CriticalAlerts(metrics) ==
    {i \in DOMAIN metrics : metrics[i].critical.given
                            /\ alert(metrics[i].critical, metrics[i].value)}

\* SimpleNagios._eval, second loop: the metrics whose warning range alerts
WarningAlerts(metrics) ==
    {i \in DOMAIN metrics : metrics[i].warning.given
                            /\ alert(metrics[i].warning, metrics[i].value)}

\* one loop of SimpleNagios._eval over sorted(processed_dict.items()): the
\* metrics, by their place in the sorted order, it appends to msg
RECURSIVE AppendAlerts(_, _, _)
AppendAlerts(metrics, level, from) ==
    IF from > NumMetrics THEN <<>>
    ELSE LET r == IF level = "critical" THEN metrics[from].critical
                  ELSE metrics[from].warning
         IN (IF r.given /\ alert(r, metrics[from].value) THEN <<from>> ELSE <<>>)
            \o AppendAlerts(metrics, level, from + 1)

msg_names_mut(metrics) ==
    AppendAlerts(metrics, "critical", 1) \o AppendAlerts(metrics, "warning", 1)

\* SimpleNagios._eval: msg after the critical loop and, "if not crit", the
\* warning loop
msg_names(metrics) ==
    LET c == AppendAlerts(metrics, "critical", 1)
    IN IF c # <<>> THEN c ELSE AppendAlerts(metrics, "warning", 1)

\* ', '.join(msg)
RECURSIVE join(_)
join(msg) ==
    IF msg = <<>> THEN ""
    ELSE IF Len(msg) = 1 THEN MetricName(msg[1])
    ELSE MetricName(msg[1]) \o ", " \o join(Tail(msg))

eval_mut(metrics) ==
    LET crit == WarningAlerts(metrics) # {}
        warn == ~crit /\ CriticalAlerts(metrics) # {}
    IN [warn |-> warn, crit |-> crit, names |-> msg_names(metrics),
        msg |-> join(msg_names(metrics))]

\* SimpleNagios._eval: returns warn, crit, ', '.join(msg)
eval(metrics) ==
    LET crit == CriticalAlerts(metrics) # {}
        warn == ~crit /\ WarningAlerts(metrics) # {}
    IN [warn |-> warn, crit |-> crit, names |-> msg_names(metrics),
        msg |-> join(msg_names(metrics))]

\* NagiosResult.__str__: one 'name=value;warning;critical;' per metric
RECURSIVE Perf(_, _)
Perf(metrics, from) ==
    IF from > NumMetrics THEN ""
    ELSE LET m == metrics[from]
             one == MetricName(from) \o "=" \o ToString(m.value) \o ";"
                    \o RangeText(m.warning) \o ";" \o RangeText(m.critical) \o ";"
         IN IF from = NumMetrics THEN one ELSE one \o " " \o Perf(metrics, from + 1)

\* NagiosResult.__str__
str(message, metrics) ==
    IF DOMAIN metrics = {} THEN message ELSE message \o " | " \o Perf(metrics, 1)

\* SimpleNagios._eval_and_exit: the message and the exit it ends with
eval_and_exit(message, metrics) ==
    LET e == eval(metrics)
    IN IF e.crit THEN [message |-> e.msg, names |-> e.names, exit |-> NAGIOS_EXIT_CRITICAL]
       ELSE IF e.warn THEN [message |-> e.msg, names |-> e.names, exit |-> NAGIOS_EXIT_WARNING]
       ELSE [message |-> message, names |-> e.names, exit |-> NAGIOS_EXIT_OK]

NotRun == [state |-> "start", message |-> "", names |-> <<>>, printed |-> "", code |-> -1]

\* no NagiosReporter.report_and_exit has run
NotReported == [state |-> "start", threshold |-> 0, printed |-> "", code |-> -1]
ReportIdle == report = NotReported

\* no NagiosRange is evaluated
RangeIdle ==
    /\ nrange = <<>>
    /\ alert_test = 0
    /\ range_alert = "none"

SimpleNagiosIdle ==
    /\ kwargs = [message |-> "", metrics |-> [i \in MetricIds |-> Metric(3, Absent, Absent)]]
    /\ nagios = NotRun

NagiosIdle ==
    /\ SimpleNagiosIdle
    /\ ReportIdle
    /\ RangeIdle

NagiosInit ==
    /\ kwargs \in [message : Messages,
                   metrics : [MetricIds -> [value : MetricValues, warning : MetricRanges,
                                            critical : MetricRanges]]]
    /\ nagios = NotRun
    /\ ReportIdle
    /\ RangeIdle

\* SimpleNagios(message=..., <name>=..., <name>_warning=..., ...) without
\* _cache: if self.message: _eval_and_exit, real_exit prints '<exit_text> <message>' and exits
SimpleNagiosRun ==
    /\ nagios.state = "start"
    /\ kwargs.message # ""
    /\ LET r == eval_and_exit(kwargs.message, kwargs.metrics)
       IN nagios' = [state |-> "exited",
                     message |-> r.message,
                     names |-> r.names,
                     printed |-> r.exit[2] \o " " \o str(r.message, kwargs.metrics),
                     code |-> r.exit[1]]
    /\ UNCHANGED <<now, kwargs, report, nrange, alert_test, range_alert>>
    /\ UNCHANGED nonNagiosVars

NagiosNext == SimpleNagiosRun

\* NagiosRange(nrange).alert(test)
NagiosRangeAlert ==
    /\ range_alert = "none"
    /\ LET p == parse_text(nrange)
       IN range_alert' = IF ~p.ok THEN p.error
                         ELSE IF alert(p.range, alert_test) THEN "True" ELSE "False"
    /\ UNCHANGED <<now, kwargs, nagios, report, nrange, alert_test>>
    /\ UNCHANGED nonNagiosVars

RangeNext == NagiosRangeAlert

\* ------------------------------------------------- NagiosResult.__str__
\* the names of performance data, in the order sorted() gives them
ResultNames == <<"a", "a b", "b">>
NameIds == DOMAIN ResultNames
\* ' ' in k
HasSpace(k) == ResultNames[k] = "a b"

\* the attribute <name>, <name>_warning or <name>_critical, as NAME_REG
\* splits its key into name and option
ResultKeys == [name : NameIds, option : {"value", "warning", "critical"}]
ResultValues == {1, 5}

\* self.__dict__ without message: the attributes in the order they were set,
\* every key once
ResultAttrs ==
    {d \in UNION {[1..n -> [key : ResultKeys, val : ResultValues]] : n \in 0..MaxAttrs} :
        \A i \in DOMAIN d, j \in DOMAIN d : d[i].key = d[j].key => i = j}

\* _process_data: processed_dict[name].get(option, '')
processed_get(attrs, k, option) ==
    LET key == [name |-> k, option |-> option]
    IN IF \E i \in DOMAIN attrs : attrs[i].key = key
       THEN ToString(attrs[CHOOSE i \in DOMAIN attrs : attrs[i].key = key].val)
       ELSE ""

\* the entry __str__ appends to perf for the name k
perf_entry(attrs, k) ==
    (IF HasSpace(k) THEN "'" \o ResultNames[k] \o "'" ELSE ResultNames[k])
    \o "=" \o processed_get(attrs, k, "value")
    \o ";" \o processed_get(attrs, k, "warning")
    \o ";" \o processed_get(attrs, k, "critical") \o ";"

\* the keys of processed_dict in the order of their first attribute
RECURSIVE processed_keys(_)
processed_keys(attrs) ==
    IF attrs = <<>> THEN <<>>
    ELSE LET before == processed_keys(SubSeq(attrs, 1, Len(attrs) - 1))
             k == attrs[Len(attrs)].key.name
         IN IF \E i \in DOMAIN before : before[i] = k THEN before ELSE Append(before, k)

\* sorted(processed_dict.items()): the keys by name
RECURSIVE sorted(_, _)
sorted(keys, from) ==
    IF from > Len(ResultNames) THEN <<>>
    ELSE (IF \E i \in DOMAIN keys : keys[i] = from THEN <<from>> ELSE <<>>)
         \o sorted(keys, from + 1)

\* ' '.join(perf)
RECURSIVE join_perf(_)
join_perf(perf) ==
    IF perf = <<>> THEN ""
    ELSE IF Len(perf) = 1 THEN perf[1]
    ELSE perf[1] \o " " \o join_perf(Tail(perf))

NagiosResult_str_mut(message, attrs) ==
    LET keys == processed_keys(attrs)
        perf == [i \in DOMAIN keys |-> perf_entry(attrs, keys[i])]
    IN IF keys = <<>> THEN [perf |-> <<>>, text |-> message]
       ELSE [perf |-> perf, text |-> message \o " | " \o join_perf(perf)]

\* NagiosResult.__str__: the list perf and the string returned
NagiosResult_str(message, attrs) ==
    LET keys == sorted(processed_keys(attrs), 1)
        perf == [i \in DOMAIN keys |-> perf_entry(attrs, keys[i])]
    IN IF keys = <<>> THEN [perf |-> <<>>, text |-> message]
       ELSE [perf |-> perf, text |-> message \o " | " \o join_perf(perf)]

\* NagiosResult(message, **kwargs)
ResultInit ==
    /\ kwargs \in [message : Messages, attrs : ResultAttrs]
    /\ nagios = NotRun
    /\ ReportIdle
    /\ RangeIdle

\* str(NagiosResult(message, **kwargs))
NagiosResultStr ==
    /\ nagios.state = "start"
    /\ LET r == NagiosResult_str(kwargs.message, kwargs.attrs)
       IN nagios' = [state |-> "str", message |-> kwargs.message, names |-> r.perf,
                     printed |-> r.text, code |-> -1]
    /\ UNCHANGED <<now, kwargs, report, nrange, alert_test, range_alert>>
    /\ UNCHANGED nonNagiosVars

ResultNext == NagiosResultStr

\* ------------------------------------------------- exit_from_errorcode
\* NAGIOS_DEFAULT_ERRORCODE_MAP
NAGIOS_DEFAULT_ERRORCODE_MAP ==
    [c \in 0..3 |-> CASE c = 0 -> "OK" [] c = 1 -> "WARNING"
                      [] c = 2 -> "CRITICAL" [] c = 3 -> "UNKNOWN"]

\* the statuses NAGIOS_EXIT_MAP has an exit function for
NAGIOS_EXIT_MAP_KEYS == {"OK", "WARNING", "CRITICAL", "UNKNOWN"}

\* NAGIOS_EXIT_MAP[status]: ok_exit, warning_exit, critical_exit or
\* unknown_exit, by the tuple it hands to _real_exit
NAGIOS_EXIT_MAP(status) ==
    CASE status = "OK" -> NAGIOS_EXIT_OK
      [] status = "WARNING" -> NAGIOS_EXIT_WARNING
      [] status = "CRITICAL" -> NAGIOS_EXIT_CRITICAL
      [] status = "UNKNOWN" -> NAGIOS_EXIT_UNKNOWN

\* the error codes of the calls, those of the default map and others
ErrorCodes == (-3..8) \cup {101}

\* the error_map argument: None (not given), an empty dict, a map of the
\* script's own, a map to a status without exit function
NoErrorMap == [given |-> FALSE, map |-> [c \in {} |-> ""]]
ErrorMaps ==
    {NoErrorMap,
     [given |-> TRUE, map |-> [c \in {} |-> ""]],
     [given |-> TRUE, map |-> [c \in {0, 5} |-> IF c = 0 THEN "CRITICAL" ELSE "OK"]],
     [given |-> TRUE, map |-> [c \in {0} |-> "FATAL"]]}

\* _real_exit(message, code): what is printed and the exit code
real_exit(code, msg) ==
    [state |-> "exited", message |-> msg, names |-> <<>>,
     printed |-> code[2] \o " " \o msg, code |-> code[1]]

exit_from_errorcode_default_mut(errorcode, msg, error_map) ==
    LET e_map == IF error_map.given /\ DOMAIN error_map.map # {} THEN error_map.map
                 ELSE NAGIOS_DEFAULT_ERRORCODE_MAP
    IN IF errorcode \in DOMAIN e_map /\ e_map[errorcode] \in NAGIOS_EXIT_MAP_KEYS
       THEN real_exit(NAGIOS_EXIT_MAP(e_map[errorcode]), msg)
       ELSE real_exit(NAGIOS_EXIT_CRITICAL, msg)

\* exit_from_errorcode(errorcode, msg, error_map=None): the exit function of
\* the status the map gives the code, unknown_exit when either lookup raises
\* KeyError
exit_from_errorcode_default(errorcode, msg, error_map) ==
    LET e_map == IF error_map.given /\ DOMAIN error_map.map # {} THEN error_map.map
                 ELSE NAGIOS_DEFAULT_ERRORCODE_MAP
    IN IF errorcode \in DOMAIN e_map /\ e_map[errorcode] \in NAGIOS_EXIT_MAP_KEYS
       THEN real_exit(NAGIOS_EXIT_MAP(e_map[errorcode]), msg)
       ELSE real_exit(NAGIOS_EXIT_UNKNOWN,
                      msg \o " (errorcode " \o ToString(errorcode)
                          \o " not found in " \o ToString(e_map))

\* the arguments of the calls of exit_from_errorcode
ExitInit ==
    /\ kwargs \in [message : Messages, errorcode : ErrorCodes, error_map : ErrorMaps]
    /\ nagios = NotRun
    /\ ReportIdle
    /\ RangeIdle

\* exit_from_errorcode(errorcode, msg, error_map)
ExitFromErrorcode ==
    /\ nagios.state = "start"
    /\ nagios' = exit_from_errorcode_default(kwargs.errorcode, kwargs.message, kwargs.error_map)
    /\ UNCHANGED <<now, kwargs, report, nrange, alert_test, range_alert>>
    /\ UNCHANGED nonNagiosVars

ExitNext == ExitFromErrorcode

\* ---------------------------------------------------------- _real_exit
NAGIOS_MAX_MESSAGE_LENGTH == 8192

\* a piece of text known by its length: len characters, of which the first
\* head are the first head characters of the argument and the others, if
\* any, are the dots '...'
Text(n) == [len |-> n, head |-> n]

\* the lengths of the pieces between the '|' of a message
PieceLengths ==
    {0, 1, NAGIOS_MAX_MESSAGE_LENGTH - 3, NAGIOS_MAX_MESSAGE_LENGTH - 1,
     NAGIOS_MAX_MESSAGE_LENGTH, NAGIOS_MAX_MESSAGE_LENGTH + 1, 2 * NAGIOS_MAX_MESSAGE_LENGTH}

\* message.split('|') of the messages handed to _real_exit: one piece for a
\* message without '|', one more for every '|' in it
SplitMessages ==
    UNION {[1..n -> {Text(l) : l \in IF n = 1 THEN PieceLengths ELSE {0, 1, NAGIOS_MAX_MESSAGE_LENGTH + 1}}] :
             n \in 1..3}

\* msg[:NAGIOS_MAX_MESSAGE_LENGTH-3] + '...'
truncate(msg) ==
    IF msg.len > NAGIOS_MAX_MESSAGE_LENGTH
    THEN [len |-> (NAGIOS_MAX_MESSAGE_LENGTH - 3) + 3, head |-> NAGIOS_MAX_MESSAGE_LENGTH - 3]
    ELSE msg

\* _real_exit(message, code, metrics=''): message = message.split('|'), msg =
\* message[0], metrics = '|' + message[1] when there is a second piece; the
\* pieces printed after exit_text and the exit code
real_exit_split(message, code) ==
    [state |-> "exited", message |-> message, names |-> <<>>,
     printed |-> [exit_text |-> code[2], msg |-> truncate(message[1]),
                  metrics |-> IF Len(message) > 1 THEN <<message[2]>> ELSE <<>>],
     code |-> code[1]]

\* the arguments of the calls of _real_exit
RealExitInit ==
    /\ kwargs \in [message : SplitMessages,
                   code : {NAGIOS_EXIT_OK, NAGIOS_EXIT_WARNING, NAGIOS_EXIT_CRITICAL,
                           NAGIOS_EXIT_UNKNOWN}]
    /\ nagios = NotRun
    /\ ReportIdle
    /\ RangeIdle

\* _real_exit(message, code)
RealExit ==
    /\ nagios.state = "start"
    /\ nagios' = real_exit_split(kwargs.message, kwargs.code)
    /\ UNCHANGED <<now, kwargs, report, nrange, alert_test, range_alert>>
    /\ UNCHANGED nonNagiosVars

RealExitNext == RealExit

\* ----------------------------------- NagiosReporter, SimpleNagios with _cache
\* the thresholds NagiosReporter is constructed with
ReportThresholds == {-1, 0, 1, 2}

\* _real_exit(message, code): print(f"{exit_text} {msg}")
real_exit_print(code, message) == code[2] \o " " \o message

IsRecent_mut(ts, thr) == thr <= 0 \/ now - ts <= thr

\* report_and_exit: self.threshold <= 0 or time.time() - timestamp < self.threshold
IsRecent(ts, thr) == thr <= 0 \/ now - ts < thr

\* NagiosReporter('no header', filename, thr).report_and_exit(): how the
\* process ends. FileCache(filename, True) turns a missing or unreadable file
\* into an empty shelf, load('nagios') is then None, and unpacking None raises
\* a TypeError that nothing catches
report_and_exit(file, thr) ==
    LET e == load_from(EmptyDict, InitShelf(file, TRUE), NagiosKey)
    IN IF e = None
       THEN [state |-> "raised", threshold |-> thr, printed |-> "TypeError", code |-> 1]
       ELSE IF IsRecent(e.ts, thr)
       THEN [state |-> "exited", threshold |-> thr,
             printed |-> e.val[1][2] \o " " \o e.val[2], code |-> e.val[1][1]]
       ELSE [state |-> "exited", threshold |-> thr,
             printed |-> real_exit_print(NAGIOS_EXIT_UNKNOWN,
                            "no header gzipped JSON file too old (timestamp = "
                            \o ToString(e.ts) \o ")"),
             code |-> NAGIOS_EXIT_UNKNOWN[1]]

ReportAndExit(thr) ==
    /\ report.state = "start"
    /\ report' = report_and_exit(disk, thr)
    /\ UNCHANGED <<now, cacheVars, kwargs, nagios, nrange, alert_test, range_alert>>
    /\ UNCHANGED <<lockVars, cliVars>>

SimpleNagios_exit_mut(cached, nagios_exitcode, msg) ==
    [state |-> "exited", message |-> msg, names |-> <<>>,
     printed |-> real_exit_print(nagios_exitcode, msg), code |-> nagios_exitcode[1]]

\* SimpleNagios._exit(nagios_exitcode, msg): self._final is NagiosReporter.cache
\* when _cache is set, which returns, and real_exit otherwise, which exits
SimpleNagios_exit(cached, nagios_exitcode, msg) ==
    IF cached
    THEN [state |-> "returned", message |-> msg, names |-> <<>>, printed |-> "", code |-> -1]
    ELSE [state |-> "exited", message |-> msg, names |-> <<>>,
          printed |-> real_exit_print(nagios_exitcode, msg), code |-> nagios_exitcode[1]]

\* SimpleNagios(_cache=filename).ok / warning / critical / unknown (msg)
SimpleNagiosCached(nagios_exitcode, msg) ==
    /\ CountOp("exit_cached", NagiosKey, <<nagios_exitcode, msg>>, 0, TRUE)
    /\ disk' = cache_file(nagios_exitcode, msg)
    /\ nagios' = SimpleNagios_exit(TRUE, nagios_exitcode, msg)
    /\ UNCHANGED <<now, inst, shelf, new_shelf, retain_old, aliased, diskAtOpen, touched>>
    /\ UNCHANGED <<kwargs, report, nrange, alert_test, range_alert>>
    /\ UNCHANGED <<lockVars, cliVars>>

\* SimpleNagios(_cache=filename)._eval_and_exit(message=..., <name>=..., ...):
\* critical / warning / ok (str(self))
SimpleNagiosCachedEval ==
    /\ kwargs.message # ""
    /\ LET r == eval_and_exit(kwargs.message, kwargs.metrics)
           msg == str(r.message, kwargs.metrics)
       IN /\ CountOp("exit_cached", NagiosKey, <<r.exit, msg>>, 0, TRUE)
          /\ disk' = cache_file(r.exit, msg)
          /\ nagios' = [SimpleNagios_exit(TRUE, r.exit, msg) EXCEPT !.names = r.names]
    /\ UNCHANGED <<now, inst, shelf, new_shelf, retain_old, aliased, diskAtOpen, touched>>
    /\ UNCHANGED <<kwargs, report, nrange, alert_test, range_alert>>
    /\ UNCHANGED <<lockVars, cliVars>>

\* the keyword arguments of the scripts that report through a cache file
ReporterKwargs ==
    {[message |-> "hello",
      metrics |-> [i \in MetricIds |-> IF i = 1 THEN Metric(7, w, c)
                                       ELSE Metric(3, Absent, Absent)]] :
        w \in {Absent, Range(FALSE, Omitted, Num(5))},
        c \in {Absent, Range(FALSE, Omitted, Num(5))}}

ReporterInit ==
    /\ kwargs \in ReporterKwargs
    /\ nagios = NotRun
    /\ ReportIdle
    /\ RangeIdle

ReporterNext ==
    \/ CacheTick
    \/ \E v \in CacheValues, perm \in PermOutcomes : NagiosReporterCache(v[1], v[2], perm)
    \/ \E thr \in ReportThresholds : ReportAndExit(thr)
    \/ \E v \in CacheValues : SimpleNagiosCached(v[1], v[2])
    \/ SimpleNagiosCachedEval

\* ------------------------------------------- script_tools: CLIBase, OldCLI
\* the process that runs the script
Me == 1

\* TimestampedPidLockfile.acquire() run with no other process in between:
\* how it ends and the lock file it leaves
acquire_alone ==
    IF path = NoFile
    THEN [res |-> "ok", path |-> Me,
          content |-> [content EXCEPT ![Me] = FullContent(getpid(Me), now)]]
    ELSE IF content[path].kind # "full"
    THEN [res |-> "LockFileReadError", path |-> path, content |-> content]
    ELSE IF IsStale(content[path].ts, EffectiveTimeout(0))
    THEN [res |-> "ok", path |-> Me,
          content |-> [content EXCEPT ![Me] = FullContent(getpid(Me), now)]]
    ELSE [res |-> "LockFailed", path |-> path, content |-> content]

\* TimestampedPidLockfile.release() run with no other process in between
release_alone ==
    IF path = NoFile THEN [res |-> "NotLocked", path |-> path]
    ELSE IF content[path].kind # "full" THEN [res |-> "LockFileReadError", path |-> path]
    ELSE IF content[path].pid # getpid(Me) THEN [res |-> "NotMyLock", path |-> path]
    ELSE [res |-> "released", path |-> NoFile]

\* sys.exit(arg): an int is the exit code; any other object is printed and
\* the exit code is 1
ExitCode(arg) == arg
TupleExit == 1
\* the run ended by an exception nothing caught
Uncaught == 120
\* main() returned
Returned == 0

\* status: the status last handed to the nagios reporter, error: the message
\* of logging.error, log: the lock and file events of the run in order, ran:
\* the prologues, do and epilogues main called, in order, printed: what a
\* replay of the cached status printed
CliStart == [pc |-> "start", code |-> -1, how |-> "", acquired |-> FALSE, log |-> <<>>,
             status |-> "", error |-> "", ran |-> <<>>, printed |-> ""]

Terminate(c, code, how) == [c EXCEPT !.pc = "terminated", !.code = code, !.how = how]
Logged(c, ev) == [c EXCEPT !.log = Append(@, ev)]
Ran(c, method) == [c EXCEPT !.ran = Append(@, method)]

\* nagios_reporter.ok/warning/critical/unknown of a SimpleNagios built with
\* _cache: NagiosReporter.cache writes the status to the cache file and returns
Reported(c, nagios_exit) == [Logged(c, "cache") EXCEPT !.status = nagios_exit[2]]

\* exit_from_errorcode(code, msg) -> real_exit: prints the status, sys.exit(code)
exit_from_errorcode(c, nagios_exit, how) ==
    Terminate([c EXCEPT !.status = nagios_exit[2]], ExitCode(nagios_exit[1]), how)

\* lock_or_bork(lockfile, simple_nagios), res being how lockfile.acquire()
\* ended: LockFailed: simple_nagios.critical, sys.exit(NAGIOS_EXIT_CRITICAL);
\* the except LockError clause matches nothing acquire() raises, and
\* LockFileReadError, a plain Exception, passes both clauses
lock_or_bork(c, res) ==
    IF res = "ok" THEN Logged([c EXCEPT !.acquired = TRUE], "acquire")
    ELSE IF res = "LockFailed"
    THEN Terminate(Reported(c, NAGIOS_EXIT_CRITICAL), TupleExit, res)
    ELSE Terminate(c, Uncaught, res)

\* release_or_bork(lockfile, simple_nagios), res being how lockfile.release()
\* ended: NotLocked, NotMyLock: simple_nagios.critical,
\* sys.exit(NAGIOS_EXIT_CRITICAL)
release_or_bork(c, res) ==
    IF res = "released" THEN Logged(c, "release")
    ELSE IF res \in {"NotLocked", "NotMyLock"}
    THEN Terminate(Reported(c, NAGIOS_EXIT_CRITICAL), TupleExit, res)
    ELSE Terminate(c, Uncaught, res)

\* what do() does: returns nothing, returns errors, raises an Exception, or
\* (OldCLI) ends the script through self.ok, self.critical or self.unknown
DoOutcomes == {"ok", "errors", "raises", "calls_ok", "calls_critical", "calls_unknown"}
\* str(err) of the exception do() raises
DoError == "Unrecoverable error!"

CliConfigs ==
    [class : {"CLIBase", "OldCLI"},
     LockMixin : BOOLEAN, TimestampMixin : BOOLEAN, HAMixin : BOOLEAN,
     LogMixin : BOOLEAN, NagiosStatusMixin : BOOLEAN,
     dry_run : BOOLEAN, disable_locking : BOOLEAN,
     nagios_report : BOOLEAN,     \* options.nagios_report
     on_ha_master : BOOLEAN,      \* not options.ha or proceed_on_ha_service(options.ha)
     timestamp_read : BOOLEAN,    \* retrieve_timestamp_with_default does not raise
     timestamp_write : BOOLEAN,   \* write_timestamp does not raise
     do : DoOutcomes]

CliIdle ==
    /\ cfg = [class |-> "CLIBase", LockMixin |-> FALSE, TimestampMixin |-> FALSE,
              HAMixin |-> FALSE, LogMixin |-> FALSE, NagiosStatusMixin |-> FALSE,
              dry_run |-> FALSE, disable_locking |-> FALSE, nagios_report |-> FALSE,
              on_ha_master |-> TRUE, timestamp_read |-> TRUE, timestamp_write |-> TRUE,
              do |-> "ok"]
    /\ cli = CliStart

CliInit ==
    /\ cfg \in CliConfigs
    \* the options of the other class are at their defaults
    /\ cfg.class = "CLIBase" => (/\ cfg.disable_locking => cfg.LockMixin
                                 /\ cfg.do \in {"ok", "errors", "raises"}
                                 /\ cfg.nagios_report => cfg.NagiosStatusMixin)
    \* the status cache file is read by a report run only
    /\ ~cfg.nagios_report => disk = AbsentFile
    /\ cfg.class = "OldCLI" => (/\ cfg.LockMixin /\ cfg.TimestampMixin /\ cfg.HAMixin
                                /\ cfg.LogMixin /\ ~cfg.NagiosStatusMixin)
    /\ cli = CliStart

\* options.nagios_check_interval_threshold, the lock threshold being twice it
nagios_check_interval_threshold == threshold \div 2

\* SimpleNagios(_cache=..., _report_and_exit=True, _threshold=...):
\* NagiosReporter.report_and_exit prints the cached status and exits with
\* its code, or raises TypeError, which nothing catches
replay(c) ==
    LET r == report_and_exit(disk, nagios_check_interval_threshold)
    IN IF r.state = "raised" THEN Terminate(c, Uncaught, r.printed)
       ELSE Terminate([c EXCEPT !.printed = r.printed], ExitCode(r.code), "report")

\* NagiosStatusMixin.nagios_prologue: builds the nagios reporter, which with
\* options.nagios_report replays the cached status and exits
nagios_prologue(c) ==
    IF cfg.nagios_report THEN replay(Ran(c, "nagios_prologue")) ELSE Ran(c, "nagios_prologue")

\* NagiosStatusMixin.nagios_epilogue(nagios_exit, nagios_message): hands the
\* status to the nagios reporter and exits with the status's code
nagios_epilogue(c, nagios_exit, how) ==
    Terminate(Reported(Ran(c, "nagios_epilogue"), nagios_exit), ExitCode(nagios_exit[1]), how)

\* CLIBase.critical(msg): nagios_epilogue(NAGIOS_CRITICAL, msg) with
\* NagiosStatusMixin, else logging.error(msg), sys.exit(1)
CLIBase_critical_mut(c, msg, how) ==
    IF cfg.NagiosStatusMixin THEN nagios_epilogue(c, NAGIOS_EXIT_CRITICAL, how)
    ELSE Terminate(c, Uncaught, how)

CLIBase_critical(c, msg, how) ==
    IF cfg.NagiosStatusMixin THEN nagios_epilogue(c, NAGIOS_EXIT_CRITICAL, how)
    ELSE Terminate([c EXCEPT !.error = msg], ExitCode(1), how)

\* LockMixin.lock_epilogue, res being how lockfile.release() ended: every
\* exception becomes LockException, which main does not catch
lock_epilogue(c, res) ==
    IF res = "released" THEN Logged(Ran(c, "lock_epilogue"), "release")
    ELSE Terminate(Ran(c, "lock_epilogue"), Uncaught, "LockException")

\* CLIBase.main, lines 369-389: nagios_prologue, log_prologue, lock_prologue,
\* timestamp_prologue, ha_prologue; LockException, HAException and
\* TimestampException go to self.critical
CLIBase_Prologues ==
    /\ cfg.class = "CLIBase"
    /\ cli.pc = "start"
    /\ LET a == acquire_alone
           c1 == IF cfg.NagiosStatusMixin THEN nagios_prologue(cli) ELSE cli
           reports == c1.pc = "terminated"
           locked == cfg.LockMixin /\ a.res = "ok" /\ ~reports
           c2 == IF cfg.LogMixin THEN Ran(c1, "log_prologue") ELSE c1
           c3 == IF cfg.LockMixin THEN Ran(c2, "lock_prologue") ELSE c2
           c4 == IF locked THEN Logged([c3 EXCEPT !.acquired = TRUE], "acquire") ELSE c3
           c5 == IF cfg.TimestampMixin THEN Ran(c4, "timestamp_prologue") ELSE c4
           c6 == IF cfg.HAMixin THEN Ran(c5, "ha_prologue") ELSE c5
       IN /\ path' = IF locked THEN a.path ELSE path
          /\ content' = IF locked THEN a.content ELSE content
          /\ cli' = IF reports THEN c1
                    ELSE IF cfg.LockMixin /\ a.res = "LockFailed"
                        THEN CLIBase_critical(c3, "Failed to acquire lock", "LockException")
                    ELSE IF cfg.LockMixin /\ a.res # "ok"
                        THEN Terminate(c3, Uncaught, a.res)
                    ELSE IF cfg.TimestampMixin /\ ~cfg.timestamp_read
                        THEN CLIBase_critical(c5, "Failed to retrieve timestamp",
                                              "TimestampException")
                    ELSE IF cfg.HAMixin /\ ~cfg.on_ha_master
                        THEN CLIBase_critical(c6, "Not running on the target host",
                                              "HAException")
                    ELSE [c6 EXCEPT !.pc = "do"]
    /\ UNCHANGED <<now, threshold, pc, rd, tmo, result, holds, calls, cfg>>
    /\ UNCHANGED <<cacheVars, nagiosVars>>

\* CLIBase.main, lines 392-400: do() in try / except Exception: critical /
\* finally: final(), lock_epilogue(); what lock_epilogue raises replaces the
\* SystemExit of critical
CLIBase_Do ==
    /\ cfg.class = "CLIBase"
    /\ cli.pc = "do"
    /\ LET c1 == Ran(Logged(cli, "do"), "do")
           c2 == IF cfg.do = "raises"
                 THEN CLIBase_critical(c1, "Script failed in an unrecoverable way: " \o DoError,
                                       "do raised")
                 ELSE c1
           r == release_alone
           c3 == IF cfg.LockMixin THEN lock_epilogue(c2, r.res) ELSE c2
       IN /\ path' = IF cfg.LockMixin THEN r.path ELSE path
          /\ content' = content
          /\ cli' = IF c3.pc = "terminated" THEN c3 ELSE [c3 EXCEPT !.pc = "epilogues"]
    /\ UNCHANGED <<now, threshold, pc, rd, tmo, result, holds, calls, cfg>>
    /\ UNCHANGED <<cacheVars, nagiosVars>>

\* TimestampMixin.timestamp_epilogue: write_timestamp, an exception becoming
\* TimestampException, which main does not catch
timestamp_epilogue(c) ==
    IF cfg.timestamp_write THEN Logged(Ran(c, "timestamp_epilogue"), "write_timestamp")
    ELSE Terminate(Ran(c, "timestamp_epilogue"), Uncaught, "TimestampException")

\* CLIBase.main, lines 404-415: timestamp_epilogue, lock_epilogue,
\* nagios_epilogue, log_epilogue; nothing catches what they raise
CLIBase_Epilogues ==
    /\ cfg.class = "CLIBase"
    /\ cli.pc = "epilogues"
    /\ content' = content
    /\ LET c1 == IF cfg.TimestampMixin THEN timestamp_epilogue(cli) ELSE cli
           second == cfg.LockMixin /\ c1.pc # "terminated"
           r == release_alone
           c2 == IF second THEN lock_epilogue(c1, r.res) ELSE c1
           c3 == IF cfg.NagiosStatusMixin /\ c2.pc # "terminated"
                 THEN nagios_epilogue(c2, NAGIOS_EXIT_OK, "nagios_epilogue") ELSE c2
           c4 == IF cfg.LogMixin /\ c3.pc # "terminated" THEN Ran(c3, "log_epilogue") ELSE c3
       IN /\ path' = IF second THEN r.path ELSE path
          /\ cli' = IF c4.pc = "terminated" THEN c4 ELSE Terminate(c4, Returned, "returned")
    /\ UNCHANGED <<now, threshold, pc, rd, tmo, result, holds, calls, cfg>>
    /\ UNCHANGED <<cacheVars, nagiosVars>>

\* OldCLI.__init__ -> ExtendedSimpleOption.prologue: the SimpleNagios
\* constructor replays and exits with nagios_report; not on the HA master:
\* nagios_reporter.ok, sys.exit(NAGIOS_EXIT_OK); else lock_or_bork unless
\* disable_locking or dry_run
ExtendedSimpleOption_prologue ==
    /\ cfg.class = "OldCLI"
    /\ cli.pc = "start"
    /\ LET a == acquire_alone
           locking == /\ ~cfg.disable_locking /\ ~cfg.dry_run /\ cfg.on_ha_master
                      /\ ~cfg.nagios_report
           locked == locking /\ a.res = "ok"
           c1 == IF locking THEN lock_or_bork(cli, a.res) ELSE cli
       IN /\ path' = IF locked THEN a.path ELSE path
          /\ content' = IF locked THEN a.content ELSE content
          /\ cli' = IF cfg.nagios_report THEN replay(cli)
                    ELSE IF ~cfg.on_ha_master
                        THEN Terminate(Reported(cli, NAGIOS_EXIT_OK), TupleExit,
                                       "not on HA master")
                    ELSE IF c1.pc = "terminated" THEN c1
                    ELSE [c1 EXCEPT !.pc = "make_time"]
    /\ UNCHANGED <<now, threshold, pc, rd, tmo, result, holds, calls, cfg>>
    /\ UNCHANGED <<cacheVars, nagiosVars>>

\* OldCLI.critical_exception(msg, exception): exit_from_errorcode(2, msg)
critical_exception(c, how) == exit_from_errorcode(c, NAGIOS_EXIT_CRITICAL, how)

\* OldCLI.main -> make_time: an exception goes to critical_exception
OldCLI_make_time ==
    /\ cfg.class = "OldCLI"
    /\ cli.pc = "make_time"
    /\ cli' = IF cfg.timestamp_read THEN [cli EXCEPT !.pc = "do"]
              ELSE critical_exception(cli, "make_time raised")
    /\ UNCHANGED <<now, lockVars, cfg>>
    /\ UNCHANGED <<cacheVars, nagiosVars>>

\* ExtendedSimpleOption._epilogue: release_or_bork unless disable_locking or dry_run
epilogue_releases == ~cfg.disable_locking /\ ~cfg.dry_run

\* ExtendedSimpleOption.ok/warning/critical/unknown(msg): _epilogue, then
\* nagios_reporter.ok/warning/critical/unknown(msg)
fulloptions_exit(c, nagios_exit) ==
    LET c1 == IF epilogue_releases THEN release_or_bork(c, release_alone.res) ELSE c
    IN IF c1.pc = "terminated" THEN c1 ELSE Reported(c1, nagios_exit)

\* OldCLI.ok/warning/critical/unknown(msg): fulloptions.ok/...(msg), then
\* sys.exit(NAGIOS_EXIT_OK[0]) and so on
OldCLI_exit(c, nagios_exit, how) ==
    LET c1 == fulloptions_exit(c, nagios_exit)
    IN IF c1.pc = "terminated" THEN c1 ELSE Terminate(c1, ExitCode(nagios_exit[1]), how)

\* the status do() ends the script with
DoExit == [calls_ok |-> NAGIOS_EXIT_OK, calls_critical |-> NAGIOS_EXIT_CRITICAL,
           calls_unknown |-> NAGIOS_EXIT_UNKNOWN]

\* OldCLI.main, lines 745-750: do() in try / except Exception:
\* critical_exception / finally: final(); the SystemExit of self.ok,
\* self.critical and self.unknown is no Exception and ends the script
OldCLI_Do ==
    /\ cfg.class = "OldCLI"
    /\ cli.pc = "do"
    /\ content' = content
    /\ LET c1 == Ran(Logged(cli, "do"), "do")
           exits == cfg.do \in DOMAIN DoExit
           c2 == IF exits THEN OldCLI_exit(c1, DoExit[cfg.do], cfg.do) ELSE c1
       IN /\ path' = IF exits /\ epilogue_releases THEN release_alone.path ELSE path
          /\ cli' = IF cfg.do = "raises" THEN critical_exception(c1, "do raised")
                    ELSE IF exits /\ c2.code = Uncaught THEN critical_exception(c1, "do raised")
                    ELSE IF exits THEN c2
                    ELSE [c1 EXCEPT !.pc = "post"]
    /\ UNCHANGED <<now, threshold, pc, rd, tmo, result, holds, calls, cfg>>
    /\ UNCHANGED <<cacheVars, nagiosVars>>

\* OldCLI.post(errors): errors: self.warning; else write_timestamp unless
\* dry_run, its exception going to critical_exception
OldCLI_post ==
    /\ cfg.class = "OldCLI"
    /\ cli.pc = "post"
    /\ content' = content
    /\ IF cfg.do = "errors"
       THEN /\ path' = IF epilogue_releases THEN release_alone.path ELSE path
            /\ cli' = OldCLI_exit(cli, NAGIOS_EXIT_WARNING, "errors")
       ELSE /\ path' = path
            /\ cli' = IF cfg.dry_run THEN [cli EXCEPT !.pc = "epilogue"]
                      ELSE IF cfg.timestamp_write
                      THEN [Logged(cli, "write_timestamp") EXCEPT !.pc = "epilogue"]
                      ELSE critical_exception(cli, "write_timestamp raised")
    /\ UNCHANGED <<now, threshold, pc, rd, tmo, result, holds, calls, cfg>>
    /\ UNCHANGED <<cacheVars, nagiosVars>>

\* OldCLI.main, line 754: fulloptions.epilogue(msg, self.thresholds):
\* _epilogue, then nagios_reporter._eval_and_exit, which with no thresholds
\* caches OK and returns
ExtendedSimpleOption_epilogue ==
    /\ cfg.class = "OldCLI"
    /\ cli.pc = "epilogue"
    /\ content' = content
    /\ path' = IF epilogue_releases THEN release_alone.path ELSE path
    /\ LET c1 == fulloptions_exit(cli, NAGIOS_EXIT_OK)
       IN cli' = IF c1.pc = "terminated" THEN c1 ELSE Terminate(c1, Returned, "returned")
    /\ UNCHANGED <<now, threshold, pc, rd, tmo, result, holds, calls, cfg>>
    /\ UNCHANGED <<cacheVars, nagiosVars>>

CliNext ==
    \/ CLIBase_Prologues
    \/ CLIBase_Do
    \/ CLIBase_Epilogues
    \/ ExtendedSimpleOption_prologue
    \/ OldCLI_make_time
    \/ OldCLI_Do
    \/ OldCLI_post
    \/ ExtendedSimpleOption_epilogue

\* ----------------------------------- consecutive runs of OldCLI.main
MAX_DELTA == 3
MAX_RTT == 2 * MAX_DELTA + 1

TimestampKey == StrKey("timestamp")

\* a datetime.datetime: its whole seconds, and whether it has microseconds
Datetime(sec, frac) == [sec |-> sec, frac |-> frac]

\* strftime(LDAP_DATETIME_TIMEFORMAT): "%Y%m%d%H%M%SZ" has no field for the
\* microseconds
strftime(dt) == <<"ldap", dt.sec>>

\* convert_timestamp(timestamp)[1] of a datetime
convert_timestamp(dt) == strftime(dt)

\* "20140101000000Z", by the seconds since the epoch it names
DEFAULT_TIMESTAMP == <<"ldap", 1388534400>>

\* convert_to_unix_timestamp(timestamp) of a string: a unix timestamp of 10
\* characters or an LDAP timestamp of 15, both parsed to whole seconds
convert_to_unix_timestamp(timestamp) == timestamp[2]

\* options.start_timestamp: None, or a unix timestamp on the command line
NoOption == <<>>
StartOptions == {NoOption, <<"unix", 0>>}

\* read_timestamp(filename): FileCache(filename).load('timestamp'); unpacking
\* the None of a missing entry raises the TypeError that is turned into None
read_timestamp(file) ==
    LET e == load_from(EmptyDict, InitShelf(file, TRUE), TimestampKey)
    IN IF e = None THEN NoOption ELSE e.val

\* retrieve_timestamp_with_default(filename, start_timestamp, DEFAULT_TIMESTAMP,
\* -MAX_RTT): (timestamp, current_time); frac is the sub-second part of now()
retrieve_timestamp_with_default(file, start_timestamp, frac) ==
    LET t == IF start_timestamp = NoOption THEN read_timestamp(file) ELSE start_timestamp
    IN <<IF t = NoOption THEN convert_to_unix_timestamp(DEFAULT_TIMESTAMP)
         ELSE convert_to_unix_timestamp(t),
         Datetime(now - MAX_RTT, frac)>>

\* write_timestamp(filename, timestamp) of a string: FileCache(filename),
\* update('timestamp', timestamp, 0), close(): the file afterwards; update()
\* returns False when it keeps the old entry and nothing looks at that
write_timestamp(file, timestamp, written) ==
    LET sh == InitShelf(file, TRUE)
        u == update_entry(load_from(EmptyDict, sh, TimestampKey), timestamp, 0)
        ns == Put(EmptyDict, TimestampKey, u.entry)
    IN IF written THEN OkFile(jsonpickle_encode(close_shelf(ns, sh, TRUE)))
       ELSE TruncatedFile

\* the timestamp file before the first run: missing, unreadable, or written
\* by an earlier run
InitialTimestampFiles ==
    {AbsentFile, GarbageFile,
     OkFile(Put(EmptyDict, TimestampKey, Entry(0, strftime(Datetime(0 - MAX_RTT, FALSE)))))}

\* between two runs; last_ok is history: the current_time of the last run
\* whose post() wrote the timestamp and returned
RunsStart ==
    [pc |-> "idle", start_timestamp |-> 0, current_time |-> Datetime(0, FALSE),
     errors |-> FALSE, how |-> "none", last_ok |-> <<>>, runs |-> 0]

RunsInit ==
    /\ disk \in InitialTimestampFiles
    /\ cfg = [dry_run |-> FALSE, start_timestamp |-> NoOption]
    /\ cli = RunsStart

RunsFrame ==
    /\ UNCHANGED <<inst, shelf, new_shelf, retain_old, aliased, diskAtOpen, touched, lastOp, ops>>
    /\ UNCHANGED <<lockVars, nagiosVars>>

\* time passes
RunsTick ==
    /\ now < MaxTime
    /\ now' = now + 1
    /\ UNCHANGED <<disk, cfg, cli>>
    /\ RunsFrame

\* time.time() and datetime.now() read the wall clock, which an
\* administrator or the time daemon can set back
RunsClockSetBack ==
    /\ \E t \in 0..(now - 1) : now' = t
    /\ UNCHANGED <<disk, cfg, cli>>
    /\ RunsFrame

\* OldCLI.main up to and including make_time(), for a new run with the
\* given options
Runs_make_time(dry_run, start_timestamp, frac) ==
    /\ cli.pc = "idle"
    /\ cli.runs < MaxRuns
    /\ cfg' = [dry_run |-> dry_run, start_timestamp |-> start_timestamp]
    /\ LET r == retrieve_timestamp_with_default(disk, start_timestamp, frac)
       IN cli' = [cli EXCEPT !.pc = "do", !.start_timestamp = r[1],
                             !.current_time = r[2], !.errors = FALSE,
                             !.how = "running", !.runs = @ + 1]
    /\ UNCHANGED <<now, disk>>
    /\ RunsFrame

\* OldCLI.main: errors = self.do(dry_run); an exception ends the run in
\* critical_exception
Runs_do(outcome) ==
    /\ cli.pc = "do"
    /\ cli' = IF outcome = "raises"
              THEN [cli EXCEPT !.pc = "idle", !.how = "critical"]
              ELSE [cli EXCEPT !.pc = "post", !.errors = (outcome = "errors")]
    /\ UNCHANGED <<now, disk, cfg>>
    /\ RunsFrame

\* OldCLI.post(errors) and the rest of main: warning() on errors, nothing on
\* a dry run, else write_timestamp, whose exception ends the run in
\* critical_exception; fulloptions.epilogue leaves the timestamp file alone
Runs_post(written) ==
    /\ cli.pc = "post"
    /\ IF cli.errors
       THEN /\ cli' = [cli EXCEPT !.pc = "idle", !.how = "warning"]
            /\ disk' = disk
       ELSE IF cfg.dry_run
       THEN /\ cli' = [cli EXCEPT !.pc = "idle", !.how = "ok"]
            /\ disk' = disk
       ELSE /\ disk' = write_timestamp(disk, convert_timestamp(cli.current_time), written)
            /\ cli' = IF written
                      THEN [cli EXCEPT !.pc = "idle", !.how = "ok",
                                       !.last_ok = <<cli.current_time>>]
                      ELSE [cli EXCEPT !.pc = "idle", !.how = "critical"]
    /\ UNCHANGED <<now, cfg>>
    /\ RunsFrame

RunsNext ==
    \/ RunsTick
    \/ RunsClockSetBack
    \/ \E d \in BOOLEAN, s \in StartOptions, f \in BOOLEAN : Runs_make_time(d, s, f)
    \/ \E o \in {"ok", "errors", "raises"} : Runs_do(o)
    \/ \E w \in BOOLEAN : Runs_post(w)

\* ------------------------------------------ graphyte Sender, interval mode
\* the queue_size and batch_size a Sender is made with; queue.Queue(maxsize=0)
\* has no limit
QueueSizes == {0, 1, 2}
BatchSizes == {1, 2}

\* None on the queue: the signal to stop the background thread
StopSignal == 0

\* Sender(host, interval=i, queue_size=q, batch_size=b) after __init__: the
\* thread is started and waits in its first _queue.get
SenderStart ==
    [pc |-> "run", thread |-> "get", queue |-> <<>>, messages |-> <<>>,
     sent |-> <<>>, queued |-> <<>>, dropped |-> <<>>, next |-> 1, interval |-> TRUE]

SenderInit ==
    /\ cfg \in [queue_size : QueueSizes, batch_size : BatchSizes]
    /\ cli = SenderStart

SenderFrame ==
    /\ UNCHANGED <<now, cfg>>
    /\ UNCHANGED <<lockVars, cacheVars, nagiosVars>>

\* queue.Queue.put_nowait raises queue.Full
Full(queue) == cfg.queue_size > 0 /\ Len(queue) >= cfg.queue_size

\* for i in range(0, len(messages), batch_size): messages[i:i + batch_size]
batches(messages) ==
    [i \in 1..((Len(messages) + cfg.batch_size - 1) \div cfg.batch_size) |->
        SubSeq(messages, (i - 1) * cfg.batch_size + 1,
               IF i * cfg.batch_size < Len(messages) THEN i * cfg.batch_size
               ELSE Len(messages))]

\* Sender.send(metric, value) in interval mode: the message is put on the
\* queue, or logged and dropped when the queue is full
Send ==
    /\ cli.pc = "run"
    /\ cli.interval
    /\ cli.next <= MaxMsgs
    /\ cli' = IF Full(cli.queue)
              THEN [cli EXCEPT !.dropped = Append(@, cli.next), !.next = @ + 1]
              ELSE [cli EXCEPT !.queue = Append(@, cli.next),
                               !.queued = Append(@, cli.next), !.next = @ + 1]
    /\ SenderFrame

\* Sender.stop(): self._queue.put_nowait(None); queue.Full leaves stop()
Stop_put ==
    /\ cli.pc = "run"
    /\ cli.interval
    /\ cli' = IF Full(cli.queue)
              THEN [cli EXCEPT !.pc = "raised"]
              ELSE [cli EXCEPT !.pc = "join", !.queue = Append(@, StopSignal)]
    /\ SenderFrame

\* Sender.stop(): self._thread.join(); self.interval = None
Stop_join ==
    /\ cli.pc = "join"
    /\ cli.thread = "done"
    /\ cli' = [cli EXCEPT !.pc = "stopped", !.interval = FALSE]
    /\ SenderFrame

\* _thread_loop: self._queue.get(timeout=time_till_next_check) gives the head
\* of the queue, or raises queue.Empty when the queue stays empty
Thread_get ==
    /\ cli.thread = "get"
    /\ cli' = IF cli.queue = <<>> THEN [cli EXCEPT !.thread = "check"]
              ELSE IF Head(cli.queue) = StopSignal
              THEN [cli EXCEPT !.queue = Tail(@), !.thread = "final"]
              ELSE [cli EXCEPT !.queue = Tail(@), !.thread = "drain",
                               !.messages = Append(@, Head(cli.queue))]
    /\ SenderFrame

\* _thread_loop: one round of the inner loop around get_nowait()
Thread_get_nowait ==
    /\ cli.thread = "drain"
    /\ cli' = IF cli.queue = <<>> THEN [cli EXCEPT !.thread = "check"]
              ELSE IF Head(cli.queue) = StopSignal
              THEN [cli EXCEPT !.queue = Tail(@), !.thread = "final"]
              ELSE [cli EXCEPT !.queue = Tail(@),
                               !.messages = Append(@, Head(cli.queue))]
    /\ SenderFrame

\* _thread_loop: if current_time - last_check_time >= self.interval, every
\* batch is handed to send_socket, which catches what send_message raises
Thread_check(due) ==
    /\ cli.thread = "check"
    /\ cli' = IF due
              THEN [cli EXCEPT !.thread = "get", !.sent = @ \o batches(cli.messages),
                               !.messages = <<>>]
              ELSE [cli EXCEPT !.thread = "get"]
    /\ SenderFrame

\* _thread_loop after the loop: the final messages are sent, the thread ends
Thread_final ==
    /\ cli.thread = "final"
    /\ cli' = [cli EXCEPT !.thread = "done", !.sent = @ \o batches(cli.messages),
                          !.messages = <<>>]
    /\ SenderFrame

SenderNext ==
    \/ Send
    \/ Stop_put
    \/ Stop_join
    \/ Thread_get
    \/ Thread_get_nowait
    \/ \E due \in BOOLEAN : Thread_check(due)
    \/ Thread_final

\* ------------------------------------------------------- ConsumerCLI.do
\* msg.value of a consumed message: empty, not JSON, or the JSON of a number
\* (or true, or null), of a list (or a string), of an object without
\* 'payload', of an object with it
MsgValues == {"empty", "not_json", "number", "list", "object", "event"}

\* ConsumerCLI.process_msg(msg): the event, None after logging an error, or
\* the TypeError of "'payload' in event" for an event that is no container
process_msg(value) ==
    IF value = "empty" THEN "None"
    ELSE IF value = "not_json" THEN "None"
    ELSE IF value = "number" THEN "TypeError"
    ELSE IF value = "event" THEN "event"
    ELSE "None"

Call(op, i) == [op |-> op, i |-> i]

\* do() is entered; cfg.msgs is what the consumer will yield before its
\* timeout ends the iteration
ConsumerStart == [pc |-> "start", i |-> 0, calls |-> <<>>, how |-> "running", stats |-> 0]

ConsumerInit ==
    /\ cfg \in [dry_run : BOOLEAN, msgs : UNION {[1..n -> MsgValues] : n \in 0..MaxMsgs}]
    /\ cli = ConsumerStart

ConsumerFrame ==
    /\ UNCHANGED <<now, cfg>>
    /\ UNCHANGED <<lockVars, cacheVars, nagiosVars>>

\* consumer_close(): consumer.close(autocommit=False), then the stats are logged
consumer_close(c) == [c EXCEPT !.calls = Append(@, Call("close", 0))]

\* do(): consumer = self.make_consumer(group); for msg in consumer
Consumer_iter ==
    /\ cli.pc = "start"
    /\ cli' = [cli EXCEPT !.pc = "loop", !.calls = Append(@, Call("iter", 0))]
    /\ ConsumerFrame

\* the iteration ends: consumer_close() and do() returns
Consumer_end ==
    /\ cli.pc = "loop"
    /\ cli.i = Len(cfg.msgs)
    /\ cli' = [consumer_close(cli) EXCEPT !.pc = "done", !.how = "returned"]
    /\ ConsumerFrame

\* one round of the loop: process_msg, and for an event update_shred_file,
\* commit unless dry_run, update_stats; an exception of these three closes
\* the consumer and is raised again, one of process_msg leaves do() at once
Consumer_msg(shred_ok, commit_ok) ==
    /\ cli.pc = "loop"
    /\ cli.i < Len(cfg.msgs)
    /\ LET i == cli.i + 1
           event == process_msg(cfg.msgs[i])
           c0 == [cli EXCEPT !.i = i]
           c1 == [c0 EXCEPT !.calls = Append(@, Call("update_shred_file", i))]
           c2 == [c1 EXCEPT !.calls = Append(@, Call("commit", i))]
           raised(c) == [consumer_close(c) EXCEPT !.pc = "done", !.how = "raised"]
       IN cli' = IF event = "TypeError" THEN [c0 EXCEPT !.pc = "done", !.how = "raised"]
                 ELSE IF event = "None" THEN c0
                 ELSE IF ~shred_ok THEN raised(c1)
                 ELSE IF cfg.dry_run THEN [c1 EXCEPT !.stats = @ + 1]
                 ELSE IF ~commit_ok THEN raised(c2)
                 ELSE [c2 EXCEPT !.stats = @ + 1]
    /\ ConsumerFrame

ConsumerNext ==
    \/ Consumer_iter
    \/ Consumer_end
    \/ \E shred_ok, commit_ok \in BOOLEAN : Consumer_msg(shred_ok, commit_ok)

\* ------------------------------------------------------ specifications
InitLock ==
    /\ now = 1
    /\ LockInit
    /\ CacheIdle
    /\ NagiosIdle
    /\ CliIdle

SpecLock == InitLock /\ [][LockNext]_vars

\* one process calling acquire() and release() with no other process running
AloneNext ==
    \/ Tick
    \/ \E t \in TimeoutArgs : AcquireCreate(Me, t)
    \/ AcquireWrite(Me)
    \/ AcquireRead(Me)
    \/ AcquireCheck(Me)
    \/ AcquireUnlink(Me)
    \/ AcquireRetry(Me)
    \/ ReleaseIsLocked(Me)
    \/ ReleaseExists(Me)
    \/ ReleaseRead(Me)
    \/ ReleaseRemove(Me)

InitLockAlone == InitLock

SpecLockAlone == InitLockAlone /\ [][AloneNext]_vars

InitCache ==
    /\ now = 1
    /\ LockIdle
    /\ CacheInit
    /\ NagiosIdle
    /\ CliIdle

SpecCache == InitCache /\ [][CacheNext]_vars

InitNagios ==
    /\ now = 1
    /\ LockIdle
    /\ CacheIdle
    /\ NagiosInit
    /\ CliIdle

SpecNagios == InitNagios /\ [][NagiosNext]_vars

\* the script finds no lock file, or one left by an earlier run
InitRange ==
    /\ now = 1
    /\ LockIdle
    /\ CacheIdle
    /\ SimpleNagiosIdle
    /\ ReportIdle
    /\ RangeInit
    /\ CliIdle

SpecRange == InitRange /\ [][RangeNext]_vars

InitReporter ==
    /\ now = 1
    /\ LockIdle
    /\ CacheInit
    /\ ReporterInit
    /\ CliIdle

SpecReporter == InitReporter /\ [][ReporterNext]_vars

\* the lock threshold is options.nagios_check_interval_threshold * 2
InitExit ==
    /\ now = 1
    /\ LockIdle
    /\ CacheIdle
    /\ ExitInit
    /\ CliIdle

SpecExit == InitExit /\ [][ExitNext]_vars

InitResult ==
    /\ now = 1
    /\ LockIdle
    /\ CacheIdle
    /\ ResultInit
    /\ CliIdle

SpecResult == InitResult /\ [][ResultNext]_vars

InitRealExit ==
    /\ now = 1
    /\ LockIdle
    /\ CacheIdle
    /\ RealExitInit
    /\ CliIdle

SpecRealExit == InitRealExit /\ [][RealExitNext]_vars

InitCLI ==
    /\ now = 1
    /\ LockInitOver({2 * t : t \in ThresholdValues})
    /\ CacheInit
    /\ NagiosIdle
    /\ CliInit

SpecCLI == InitCLI /\ [][CliNext]_vars

InitRuns ==
    /\ now = 1
    /\ LockIdle
    /\ inst = "none"
    /\ shelf = EmptyDict
    /\ new_shelf = EmptyDict
    /\ retain_old = TRUE
    /\ aliased = FALSE
    /\ diskAtOpen = EmptyDict
    /\ touched = {}
    /\ lastOp = NoOp
    /\ ops = 0
    /\ NagiosIdle
    /\ RunsInit

SpecRuns == InitRuns /\ [][RunsNext]_vars

InitSender ==
    /\ now = 1
    /\ LockIdle
    /\ CacheIdle
    /\ NagiosIdle
    /\ SenderInit

SpecSender == InitSender /\ [][SenderNext]_vars

InitConsumer ==
    /\ now = 1
    /\ LockIdle
    /\ CacheIdle
    /\ NagiosIdle
    /\ ConsumerInit

SpecConsumer == InitConsumer /\ [][ConsumerNext]_vars

\* ---------------------------------------------------------------- claims

\* C1: at most one process at a time is a holder, a holder being a process
\* whose acquire() returned successfully and that has not released since.
C1_AtMostOneHolder ==
    \A p, q \in Procs : (holds[p] /\ holds[q]) => p = q

\* C2: an acquire() that finds the lock file present and not stale
\* (now - recorded timestamp <= timeout) fails with LockFailed, and none of
\* its steps up to there changes the lock file.
C2_FreshLockIsRefused ==
    [][\A p \in Procs :
          /\ (pc[p] = "check" /\ pc'[p] # "check" /\ now - rd[p].ts <= tmo[p])
                => (pc'[p] = "idle" /\ result'[p] = "LockFailed")
          /\ (pc[p] \in {"read", "check"} /\ pc'[p] # pc[p])
                => (path' = path /\ content' = content)]_vars

\* a process was refused at the first clock reading, where with threshold 1
\* no lock is stale, and the
\* holder's file is still in place with the holder's pid and timestamp
C2_Witness ==
    \E p, q \in Procs :
        /\ p # q
        /\ now = 1 /\ threshold = 1
        /\ pc[p] = "idle" /\ result[p] = "LockFailed"
        /\ holds[q] /\ path = q /\ content[q] = FullContent(getpid(q), 1)

\* this process's pid is recorded in the lock file
HeldByMe == path # NoFile /\ content[path].kind = "full" /\ content[path].pid = getpid(Me)

\* C3: in every run of CLIBase.main with LockMixin or of OldCLI.main in
\* which the lock was acquired, the lock file is no longer held by this
\* process when the process terminates.
C3_LockReleasedOnExit ==
    (cli.pc = "terminated" /\ cli.acquired) => ~HeldByMe

\* C4: update(key, value, threshold) stores (now, value) and returns True
\* when there is no entry for key or the entry is older than threshold, and
\* keeps the old (timestamp, value) and returns False when
\* now - stored_timestamp <= threshold.
C4_UpdateFreshness ==
    [][(lastOp'.op = "update" /\ ops' = ops + 1) =>
          LET k == lastOp'.key
              old == load(k)
              stored == IF old = None \/ now - old.ts > lastOp'.thr
                        THEN Entry(now, lastOp'.val) ELSE old
          IN /\ load_from(new_shelf', shelf', k) = stored
             /\ lastOp'.ret = (old = None \/ ~(now - old.ts <= lastOp'.thr))]_vars

\* an update() found an entry that was too fresh and kept it
C4_Witness ==
    /\ lastOp.op = "update"
    /\ lastOp.ret = FALSE
    /\ lastOp.thr > 0
    /\ load(lastOp.key).val # lastOp.val
    /\ load(lastOp.key).ts < now

\* C5: update() with threshold <= 0 always stores the new value and returns
\* True, and after NagiosReporter.cache(status, message) the stored entry is
\* the one of that call.
C5_ZeroThresholdRefreshes ==
    [][/\ (lastOp'.op = "update" /\ ops' = ops + 1 /\ lastOp'.thr <= 0) =>
              (/\ lastOp'.ret = TRUE
               /\ load_from(new_shelf', shelf', lastOp'.key).val = lastOp'.val)
       /\ (lastOp'.op = "cache" /\ ops' = ops + 1) =>
              Get(Persisted', NagiosKey).val = lastOp'.val]_vars

\* C6: a close() that fails after it started writing leaves the previously
\* persisted file with its previous contents.
C6_FailedCloseKeepsFile ==
    [][(lastOp'.op = "close_failed" /\ ops' = ops + 1 /\ disk.kind = "ok") =>
          disk' = disk]_vars

\* the keys of the file that no update() of the session addressed
Untouched == DOMAIN diskAtOpen \ {EncodeKey(k) : k \in touched}

\* C7: after close(), a key of the persisted file that was never passed to
\* update() in the session is absent from the file when retain_old is false
\* and present with its original (timestamp, value) when retain_old is true.
C7_Retention ==
    (lastOp.op = "close" /\ inst = "closed") =>
        \A k \in Untouched :
            IF retain_old THEN Get(Persisted, k) = diskAtOpen[k]
                          ELSE Get(Persisted, k) = None

\* C8: after update() of a set of keys and close(), load(k) on a new
\* FileCache of the same path returns, for every written key k, the entry the
\* closed cache held for k, with a timestamp <= now.
C8_RoundTrip ==
    (lastOp.op = "close" /\ inst = "closed") =>
        \A k \in touched :
            LET e == load_from(EmptyDict, InitShelf(disk, TRUE), k)
            IN e # None /\ e = load(k) /\ e.ts <= now

\* the metrics of the run whose critical / warning range alerts
C9_Critical == \E i \in MetricIds : kwargs.metrics[i].critical.given
                   /\ alert(kwargs.metrics[i].critical, kwargs.metrics[i].value)
C9_Warning == \E i \in MetricIds : kwargs.metrics[i].warning.given
                   /\ alert(kwargs.metrics[i].warning, kwargs.metrics[i].value)

\* C9: the evaluation exits CRITICAL (2) iff some metric's critical range
\* alerts, WARNING (1) iff none does and some metric's warning range alerts,
\* and OK (0) otherwise.
C9_StatusOfEvaluation ==
    nagios.state = "exited" =>
        /\ nagios.code = 2 <=> C9_Critical
        /\ nagios.code = 1 <=> (~C9_Critical /\ C9_Warning)
        /\ nagios.code = 0 <=> (~C9_Critical /\ ~C9_Warning)

\* a run ended WARNING although a metric has a critical range, which did
\* not alert
C9_Witness ==
    /\ nagios.state = "exited" /\ nagios.code = 1
    /\ \E i \in MetricIds : kwargs.metrics[i].critical.given

\* C11: the name list of a CRITICAL report holds, in sorted order and each
\* once, exactly the metrics whose critical range alerts (a metric that only
\* breaches its warning range is not in it, one that breaches both is in it
\* as critical); the list of a WARNING report holds exactly the metrics whose
\* warning range alerts.
C11_NameList ==
    (nagios.state = "exited" /\ nagios.code \in {1, 2}) =>
        LET listed == {nagios.names[j] : j \in DOMAIN nagios.names}
            level(i) == IF nagios.code = 2 THEN kwargs.metrics[i].critical
                        ELSE kwargs.metrics[i].warning
        IN /\ \A a, b \in DOMAIN nagios.names : a < b => nagios.names[a] < nagios.names[b]
           /\ \A i \in MetricIds :
                  i \in listed <=> (level(i).given /\ alert(level(i), kwargs.metrics[i].value))

\* a CRITICAL report that leaves out a metric breaching only its warning
\* range and lists one that breaches both ranges
C11_Witness ==
    /\ nagios.state = "exited" /\ nagios.code = 2
    /\ \E i, j \in MetricIds :
          /\ i # j
          /\ kwargs.metrics[i].warning.given
          /\ alert(kwargs.metrics[i].warning, kwargs.metrics[i].value)
          /\ ~(kwargs.metrics[i].critical.given
                /\ alert(kwargs.metrics[i].critical, kwargs.metrics[i].value))
          /\ kwargs.metrics[j].warning.given /\ kwargs.metrics[j].critical.given
          /\ alert(kwargs.metrics[j].warning, kwargs.metrics[j].value)
          /\ alert(kwargs.metrics[j].critical, kwargs.metrics[j].value)
          /\ nagios.names = <<j>>

\* the range string read as [@][start:][end]: what follows the '@', the
\* place of its first ':', and the texts on both sides of it
C12_Negated == nrange # <<>> /\ nrange[1] = "@"
C12_Body == IF C12_Negated THEN Tail(nrange) ELSE nrange
C12_Colon ==
    IF \E i \in DOMAIN C12_Body : C12_Body[i] = ":"
    THEN CHOOSE i \in DOMAIN C12_Body :
            C12_Body[i] = ":" /\ \A j \in 1..(i - 1) : C12_Body[j] # ":"
    ELSE 0
C12_StartText == SubSeq(C12_Body, 1, C12_Colon - 1)
C12_EndText == SubSeq(C12_Body, C12_Colon + 1, Len(C12_Body))
C12_IsNumber(txt) ==
    /\ txt # <<>>
    /\ \A i \in DOMAIN txt : txt[i] \in {"1", "5"} \/ (i = 1 /\ txt[i] = "-")
    /\ txt # <<"-">>
C12_OfTheForm ==
    /\ C12_Colon = 0 \/ C12_StartText = <<"~">> \/ C12_IsNumber(C12_StartText)
    /\ C12_EndText = <<>> \/ C12_IsNumber(C12_EndText)

\* C12: for a range string [@][start:][end], alert(x) is true iff x < start
\* or x > end, start being 0 when omitted and minus infinity for '~', end
\* being plus infinity when omitted; with a leading '@' alert(x) is true iff
\* start <= x <= end.
C12_AlertOutsideRange ==
    (range_alert # "none" /\ C12_OfTheForm) =>
        LET below == /\ C12_StartText # <<"~">>
                     /\ alert_test < (IF C12_Colon = 0 THEN 0 ELSE float(C12_StartText))
            above == C12_EndText # <<>> /\ alert_test > float(C12_EndText)
        IN /\ range_alert \in {"True", "False"}
           /\ range_alert = "True" <=> (IF C12_Negated THEN ~(below \/ above)
                                        ELSE below \/ above)

\* '@1:5' alerts on its upper bound 5
C12_Witness ==
    /\ nrange = <<"@", "1", ":", "5">>
    /\ alert_test = 5
    /\ range_alert = "True"

\* C13: report_and_exit on a cache holding (timestamp, (code, text), message)
\* prints the cached text and message and exits with the cached code when
\* threshold <= 0 or now - timestamp < threshold, and otherwise exits UNKNOWN
\* (3) saying the data is too old; so a status cached just before, at the
\* same clock reading, is reported with its own exit code and message.
C13_ReportFollowsCache ==
    [][(report.state = "start" /\ report'.state # "start") =>
          LET e == Get(Persisted, NagiosKey)
              thr == report'.threshold
          IN /\ e # None =>
                  /\ report'.state = "exited"
                  /\ IF thr <= 0 \/ now - e.ts < thr
                     THEN /\ report'.code = e.val[1][1]
                          /\ report'.printed = e.val[1][2] \o " " \o e.val[2]
                     ELSE /\ report'.code = 3
                          /\ report'.printed =
                                "UNKNOWN no header gzipped JSON file too old (timestamp = "
                                \o ToString(e.ts) \o ")"
             /\ lastOp.op \in {"cache", "exit_cached"} =>
                  /\ report'.state = "exited"
                  /\ report'.code = lastOp.val[1][1]
                  /\ report'.printed = lastOp.val[1][2] \o " " \o lastOp.val[2]]_vars

\* C14: when the cache file is missing, unreadable or without a 'nagios'
\* entry, report_and_exit ends the process with UNKNOWN (3), never with an
\* uncaught exception.
C14_NoCacheIsUnknown ==
    [][(report.state = "start" /\ report'.state # "start"
        /\ Get(Persisted, NagiosKey) = None) =>
          (report'.state = "exited" /\ report'.code = 3)]_vars

C10_Names ==
    JoinNames(IF nagios.code = 2
              THEN {i \in MetricIds : kwargs.metrics[i].critical.given
                       /\ alert(kwargs.metrics[i].critical, kwargs.metrics[i].value)}
              ELSE {i \in MetricIds : kwargs.metrics[i].warning.given
                       /\ alert(kwargs.metrics[i].warning, kwargs.metrics[i].value)}, 1)

\* C10: a CRITICAL or WARNING report's message is the triggering metric
\* names joined by ", ", then ", " and the original message; an OK report's
\* message is the original message.
C10_ReportedMessage ==
    nagios.state = "exited" =>
        IF nagios.code \in {1, 2}
        THEN nagios.message = C10_Names \o ", " \o kwargs.message
        ELSE nagios.message = kwargs.message

\* the fixed exit-code table of the four statuses
ExitCodeTable == [OK |-> NAGIOS_EXIT_OK[1], WARNING |-> NAGIOS_EXIT_WARNING[1],
                  CRITICAL |-> NAGIOS_EXIT_CRITICAL[1], UNKNOWN |-> NAGIOS_EXIT_UNKNOWN[1]]

\* C16: whenever the script is ended after a status was reported
\* (lock_or_bork or release_or_bork reporting CRITICAL, the prologue off the
\* HA master reporting OK, OldCLI.ok/warning/critical/unknown), the exit code
\* of the process is the table's value for that status: 0, 1, 2, 3.
C16_ExitCodeOfStatus ==
    (cli.pc = "terminated" /\ cli.status # "" /\ cli.code # Uncaught)
        => cli.code = ExitCodeTable[cli.status]

\* C17: every failure of lockfile.acquire() under lock_or_bork (lock held, or
\* the previous lock file unreadable or corrupt) ends with a CRITICAL status
\* handed to the SimpleNagios instance and the process terminated by
\* lock_or_bork; none escapes as an uncaught exception.
C17_LockFailuresAreReported ==
    [][(/\ cfg.class = "OldCLI" /\ cli.pc = "start"
        /\ cfg.on_ha_master /\ ~cfg.disable_locking /\ ~cfg.dry_run
        /\ acquire_alone.res # "ok")
       => (cli'.pc = "terminated" /\ cli'.status = "CRITICAL" /\ cli'.code # Uncaught)]_vars

\* C18: an Exception raised by do() in CLIBase.main ends in a critical
\* report and a process exit: with NagiosStatusMixin a CRITICAL status through
\* nagios_epilogue, without it the error log 'Script failed in an
\* unrecoverable way: <err>' and exit code 1; the run never ends with the
\* exception leaving main.
C18_DoExceptionIsReported ==
    [][(cfg.class = "CLIBase" /\ cli.pc = "do" /\ cfg.do = "raises")
       => /\ cli'.pc = "terminated"
          /\ cli'.code # Uncaught
          /\ cli'.how = "do raised"
          /\ IF cfg.NagiosStatusMixin
             THEN /\ cli'.status = "CRITICAL"
                  /\ Len(cli'.ran) > 1
                  /\ cli'.ran[Len(cli'.ran) - (IF cfg.LockMixin THEN 1 ELSE 0)]
                        = "nagios_epilogue"
             ELSE /\ cli'.error = "Script failed in an unrecoverable way: " \o DoError
                  /\ cli'.code = 1]_vars

C18_Witness ==
    /\ cfg.class = "CLIBase" /\ cfg.do = "raises" /\ cfg.LockMixin /\ ~cfg.NagiosStatusMixin
    /\ cli.pc = "terminated" /\ cli.how = "do raised"
    /\ cli.error = "Script failed in an unrecoverable way: Unrecoverable error!"

\* how often ev occurs in seq, and whether some a stands before some b in it
Count(ev, seq) == Cardinality({i \in 1..Len(seq) : seq[i] = ev})
Before(a, b, seq) == \E i, j \in 1..Len(seq) : i < j /\ seq[i] = a /\ seq[j] = b

C19_Prologues ==
    (IF cfg.LogMixin THEN {"log_prologue"} ELSE {})
    \cup (IF cfg.LockMixin THEN {"lock_prologue"} ELSE {})
    \cup (IF cfg.TimestampMixin THEN {"timestamp_prologue"} ELSE {})
    \cup (IF cfg.HAMixin THEN {"ha_prologue"} ELSE {})

C19_Epilogues ==
    (IF cfg.TimestampMixin THEN {"timestamp_epilogue"} ELSE {})
    \cup (IF cfg.LockMixin THEN {"lock_epilogue"} ELSE {})
    \cup (IF cfg.LogMixin THEN {"log_epilogue"} ELSE {})

\* C19: in a CLIBase.main run where do() returns normally (the runs checked
\* are those of the mixins whose code is in the sources: log, lock,
\* timestamp, HA, with write_timestamp succeeding), every mixed-in prologue
\* runs before do(), every mixed-in epilogue runs after do(), the lock is
\* released exactly once, and main returns without raising.
C19_MainRunsAllAndReturns ==
    (/\ cfg.class = "CLIBase" /\ ~cfg.NagiosStatusMixin
     /\ cfg.do # "raises" /\ cfg.timestamp_write
     /\ cli.pc = "terminated" /\ Count("do", cli.ran) = 1)
    => /\ \A m \in C19_Prologues : Before(m, "do", cli.ran)
       /\ \A m \in C19_Epilogues : Before("do", m, cli.ran)
       /\ cfg.LockMixin => Count("release", cli.log) = 1
       /\ cli.how = "returned"
       /\ cli.code = Returned

\* the run takes the lock: LockMixin, or ExtendedSimpleOption without
\* disable_locking and dry_run
C20_Locking ==
    IF cfg.class = "CLIBase" THEN cfg.LockMixin ELSE ~cfg.disable_locking /\ ~cfg.dry_run

\* the lock is held at event i of the run: acquired before and not released since
C20_HeldAt(i) ==
    \E j \in 1..(i - 1) :
        /\ cli.log[j] = "acquire"
        /\ \A k \in j..i : cli.log[k] # "release"

\* C20: in a run that takes the lock, every write to a cache file (the nagios
\* status cache, the timestamp cache) happens while the process holds the
\* lock: after acquire and before release.
C20_CacheWritesUnderLock ==
    C20_Locking =>
        \A i \in 1..Len(cli.log) :
            cli.log[i] \in {"cache", "write_timestamp"} => C20_HeldAt(i)

\* the 'nagios' entry of the status cache file, None when the file or the
\* entry is missing
C21_Cached ==
    IF disk.kind = "ok" THEN Get(jsonpickle_decode(disk.data), NagiosKey) ELSE None

\* C21: with the nagios-report option the run ends in the prologue: it never
\* takes the lock, never runs do() and writes neither the status cache nor
\* the timestamp file, the lock file and the cache file staying as they
\* were; a cached status is replayed with its text, message and exit code
\* (UNKNOWN, 3, when it is older than the threshold).
C21_ReportOnlyReplays ==
    [][(cli.pc = "start" /\ cfg.nagios_report)
       => /\ cli'.pc = "terminated"
          /\ ~cli'.acquired
          /\ cli'.log = <<>>
          /\ Count("do", cli'.ran) = 0
          /\ path' = path /\ content' = content /\ disk' = disk
          /\ C21_Cached # None =>
                LET thr == nagios_check_interval_threshold
                    e == C21_Cached
                IN IF thr <= 0 \/ now - e.ts < thr
                   THEN /\ cli'.code = e.val[1][1]
                        /\ cli'.printed = e.val[1][2] \o " " \o e.val[2]
                   ELSE cli'.code = 3]_vars

C21_Witness ==
    /\ cfg.class = "OldCLI" /\ cfg.nagios_report /\ cfg.on_ha_master
    /\ ~cfg.disable_locking /\ ~cfg.dry_run
    /\ C21_Cached # None
    /\ cli.pc = "terminated" /\ cli.how = "report" /\ cli.printed = "OK m1" /\ cli.code = 0

\* C22: with no other process running, an acquire() that reads from the
\* existing lock file a timestamp with now - timestamp > timeout goes on to
\* delete the file, creates its own, and returns successfully leaving a lock
\* file that records the caller's pid and the clock reading of the write.
C22_StaleLockIsTakenOver ==
    [][/\ (pc[Me] = "check" /\ pc'[Me] # "check" /\ now - rd[Me].ts > tmo[Me])
            => pc'[Me] = "unlink"
       /\ (pc[Me] = "unlink" /\ pc'[Me] # "unlink")
            => (path # NoFile /\ path' = NoFile /\ pc'[Me] = "retry")
       /\ (pc[Me] = "retry" /\ pc'[Me] # "retry")
            => (path' = Me /\ pc'[Me] = "write")
       /\ (pc[Me] = "write" /\ pc'[Me] # "write")
            => /\ pc'[Me] = "idle" /\ result'[Me] = "ok" /\ holds'[Me]
               /\ path' = Me
               /\ content'[Me] = FullContent(getpid(Me), now)]_vars

\* the first call was an acquire() that found the file of an earlier run,
\* stale, and now holds the lock
C22_Witness ==
    /\ calls = 1 /\ pc[Me] = "idle" /\ result[Me] = "ok" /\ holds[Me]
    /\ content[Ext] = FullContent(DeadPid, 0)
    /\ path = Me /\ content[Me] = FullContent(getpid(Me), now)

\* the step ends a release() call of p: from inside the call, or the call
\* ends at its first test (only p's own steps change result[p])
C23_ReleaseEnds(p) ==
    /\ pc'[p] = "idle"
    /\ \/ pc[p] \in {"rel_exists", "rel_read", "rel_remove"}
       \/ pc[p] = "idle" /\ calls' = calls + 1 /\ result'[p] # result[p]

\* C23: release() fails with NotLocked when the lock file does not exist,
\* fails with NotMyLock leaving the file in place when the pid recorded in
\* it is not the caller's, and otherwise deletes the lock file.
C23_ReleaseOutcomes ==
    [][\A p \in Procs :
          C23_ReleaseEnds(p) =>
              IF path = NoFile
              THEN result'[p] = "NotLocked" /\ path' = NoFile
              ELSE IF content[path].kind = "full" /\ content[path].pid # getpid(p)
              THEN result'[p] = "NotMyLock" /\ path' = path
              ELSE result'[p] = "released" /\ path' = NoFile]_vars

\* the step ends an acquire() call of p
C24_AcquireEnds(p) ==
    pc[p] \in {"write", "read", "check", "unlink", "retry"} /\ pc'[p] = "idle"

\* C24: acquire() ends in one of three ways: success, LockFailed, or
\* LockFileReadError, the last exactly when the existing lock file's pid and
\* timestamp cannot be parsed; it raises nothing else, also when another
\* process removes the lock file between the failed create and the read.
C24_AcquireOutcomes ==
    [][\A p \in Procs :
          C24_AcquireEnds(p) =>
              /\ result'[p] \in {"ok", "LockFailed", "LockFileReadError"}
              /\ result'[p] = "LockFileReadError"
                    <=> (pc[p] = "read" /\ path # NoFile /\ content[path].kind # "full")]_vars

\* how many steps of acquire() can still follow
C25_Rank(label) ==
    CASE label = "read" -> 5
      [] label = "check" -> 4
      [] label = "unlink" -> 3
      [] label = "retry" -> 2
      [] label = "write" -> 1
      [] OTHER -> 0

\* C25: every acquire() call completes after at most two create-exclusive
\* attempts, the first one and one retry after a stale takeover: each step
\* of the call brings it nearer to its end whatever the other processes do,
\* a failed retry ends the call, and no step goes back to an earlier one.
C25_AcquireNeverLoops ==
    [][\A p \in Procs :
          /\ (pc[p] \in {"write", "read", "check", "unlink", "retry"} /\ pc'[p] # pc[p])
                => C25_Rank(pc'[p]) < C25_Rank(pc[p])
          /\ (pc[p] = "retry" /\ pc'[p] # pc[p] /\ path # NoFile)
                => (pc'[p] = "idle" /\ result'[p] = "LockFailed")]_vars

\* a process is about to retry the create while another process's file is
\* already at the lock path
C25_Witness ==
    \E p \in Procs : pc[p] = "retry" /\ path \in Procs \ {p}

\* C26: opening a FileCache on an existing file (retain_old) fails exactly
\* when raise_unpickable is set and the payload is corrupt (not gzip, or gzip
\* that is not JSON); in every other case the constructor returns, and with an
\* empty shelf unless the file was a readable cache
C26_Corrupt == disk.kind \in {"garbage", "badjson"}

C26_OpenFailsOnlyInStrictMode ==
    [][(ops' = ops + 1 /\ lastOp'.ret = TRUE
            /\ lastOp'.op \in {"init", "init_strict", "init_strict_raised"}) =>
          /\ (lastOp'.op = "init_strict_raised")
                <=> (lastOp'.op # "init" /\ C26_Corrupt)
          /\ (lastOp'.op # "init_strict_raised" /\ disk.kind # "ok") =>
                (inst' = "open" /\ shelf' = EmptyDict)]_vars

\* C27: in NagiosReporter.cache, once the status is written, a failure of
\* chmod, of chown or of the lookup of the nagios user is only a warning:
\* cache() returns True and raises nothing
C27_PermissionFailureIsAWarning ==
    [][(ops' = ops + 1
            /\ lastOp'.op \in {"cache_chmod_fails", "cache_chown_fails", "cache_no_user"}) =>
          /\ Get(Persisted', NagiosKey) = Entry(now, lastOp'.val)
          /\ lastOp'.ret = TRUE]_vars

\* C28: NagiosRange(s) fails with a ValueError that names the offending text
\* for every string s that is not of the form [@][start:][end] with numeric
\* start and end (or '~' as start), and for the empty string: none of them
\* gives a range that answers alert()
C28_Malformed == nrange = <<>> \/ ~C12_OfTheForm

C28_Names(arg) ==
    /\ arg # <<>>
    /\ \E i \in 1..Len(nrange), j \in 1..Len(nrange) : SubSeq(nrange, i, j) = arg

C28_MalformedRangeIsAValueError ==
    (range_alert # "none" /\ C28_Malformed) =>
        /\ range_alert = "ValueError"
        /\ C28_Names(parse_text(nrange).arg)

\* C29: exit_from_errorcode(code, msg) exits OK/0, WARNING/1, CRITICAL/2 and
\* UNKNOWN/3 for the codes 0, 1, 2 and 3, and UNKNOWN/3 for every other code
C29_Status == <<"OK", "WARNING", "CRITICAL", "UNKNOWN">>

C29_Printed(word) ==
    /\ Len(nagios.printed) >= Len(word) + 1
    /\ SubSeq(nagios.printed, 1, Len(word) + 1) = word \o " "

C29_ExitFromErrorcode ==
    (nagios.state = "exited" /\ ~kwargs.error_map.given) =>
        LET c == IF kwargs.errorcode \in 0..3 THEN kwargs.errorcode ELSE 3
        IN /\ nagios.code = c
           /\ C29_Printed(C29_Status[c + 1])

C29_Witness ==
    /\ nagios.state = "exited" /\ ~kwargs.error_map.given
    /\ kwargs.errorcode = 101
    /\ nagios.code = 3

\* C30 (as stated): str(NagiosResult) is the message, ' | ', then one
\* 'name=value;warning;critical;' per metric, separated by a space and sorted
\* by name, with an empty field for an absent warning or critical; without
\* metrics it is the message alone
C30_Names == {kwargs.attrs[i].key.name : i \in DOMAIN kwargs.attrs}

C30_Given(k, option) ==
    {kwargs.attrs[i].val : i \in {j \in DOMAIN kwargs.attrs :
                                     kwargs.attrs[j].key = [name |-> k, option |-> option]}}

C30_Field(k, option) ==
    IF C30_Given(k, option) = {} THEN ""
    ELSE ToString(CHOOSE v \in C30_Given(k, option) : TRUE)

C30_Fields(k) ==
    "=" \o C30_Field(k, "value") \o ";" \o C30_Field(k, "warning")
        \o ";" \o C30_Field(k, "critical") \o ";"

C30_Layout(label(_)) ==
    LET perf == nagios.names
    IN /\ Len(perf) = Cardinality(C30_Names)
       /\ \E order \in [DOMAIN perf -> C30_Names] :
             /\ \A i \in DOMAIN perf, j \in DOMAIN perf : i < j => order[i] < order[j]
             /\ \A i \in DOMAIN perf : perf[i] = label(order[i]) \o C30_Fields(order[i])
       /\ nagios.printed = IF perf = <<>> THEN kwargs.message
                            ELSE kwargs.message \o " | " \o join_perf(perf)

C30_PlainName(k) == ResultNames[k]

C30_StrOfResult == nagios.state = "str" => C30_Layout(C30_PlainName)

\* C30 (amended): the same, a name that contains a space being written in
\* single quotes and a value that was not given being an empty field too
C30_Label(k) == IF ResultNames[k] = "a b" THEN "'a b'" ELSE ResultNames[k]

C30_StrOfResultQuoted == nagios.state = "str" => C30_Layout(C30_Label)

C30_Witness ==
    /\ nagios.state = "str"
    /\ Len(kwargs.attrs) = 3
    /\ kwargs.attrs[1].key = [name |-> 3, option |-> "critical"]
    /\ kwargs.attrs[2].key = [name |-> 2, option |-> "value"]
    /\ kwargs.attrs[3].key = [name |-> 1, option |-> "value"]
    /\ nagios.printed = "hello | a=1;;; 'a b'=5;;; b=;;1;"

\* C31: _real_exit prints a message portion of at most
\* NAGIOS_MAX_MESSAGE_LENGTH characters; a longer one is cut and ends with
\* '...', what follows the first '|' is printed whole, and a message whose
\* message portion is not longer than the maximum is printed unchanged
C31_MessagePortion ==
    nagios.state = "exited" =>
        LET msg == kwargs.message[1]
            out == nagios.printed.msg
        IN /\ out.len <= NAGIOS_MAX_MESSAGE_LENGTH
           /\ msg.len > NAGIOS_MAX_MESSAGE_LENGTH =>
                 (out.len = NAGIOS_MAX_MESSAGE_LENGTH /\ out.head = out.len - 3)
           /\ msg.len <= NAGIOS_MAX_MESSAGE_LENGTH => out = msg

C31_PrintsAtMostMax ==
    nagios.state = "exited" =>
        /\ C31_MessagePortion
        /\ nagios.printed.metrics = Tail(kwargs.message)

\* C32: a close() that follows a close() directly, under either retention
\* policy, raises nothing and leaves the file with the entries the first
\* close() wrote
C32_SecondClose == lastOp.op = "close" /\ lastOp'.op = "close" /\ ops' = ops + 1

C32_CloseTwiceIsIdempotent ==
    [][C32_SecondClose => (disk' = disk /\ inst' = "closed")]_vars

C32_Witness ==
    /\ lastOp.op = "close" /\ lastOp.val = <<"close">>
    /\ ~retain_old
    /\ disk.kind = "ok" /\ DOMAIN disk.data # {}

\* C33: a lock with threshold 0, acquired with timeout 0 or None, still
\* excludes: while a process holds the lock and has not released it, the
\* acquire() of another process that read the holder's lock file raises
\* LockFailed and does not go on to delete the file, whatever the clock says
C33_ReadsHeldLock(p) ==
    /\ pc[p] = "check" /\ threshold = 0 /\ tmo[p] = 0
    /\ \E q \in Procs \ {p} :
          /\ holds[q] /\ path = q /\ content[q] = FullContent(getpid(q), rd[p].ts)
          /\ rd[p].pid = getpid(q)

C33_ThresholdZeroExcludes ==
    [][\A p \in Procs :
          (C33_ReadsHeldLock(p) /\ pc'[p] # pc[p]) =>
              (pc'[p] = "idle" /\ result'[p] = "LockFailed")]_vars

\* C34: release() never removes a lock file that another process created
\* and that records, or is about to record, that process's pid, also when a
\* stale takeover comes between the test of i_am_locking and os.remove
C34_Removes(p) ==
    /\ pc[p] = "rel_remove" /\ pc'[p] = "idle"
    /\ path # NoFile /\ path' = NoFile

C34_ReleaseRemovesOwnFileOnly ==
    [][\A p \in Procs : C34_Removes(p) => path = p]_vars

\* C35: a lock file that a process of this run created holds a complete pid
\* line and timestamp line whenever it exists, so that a process reading it
\* in acquire() or i_am_locking(), while its creator is between the exclusive
\* create and the write, never gets LockFileReadError
C35_Reads(p) == pc[p] \in {"read", "rel_read"} /\ pc'[p] # pc[p] /\ path \in Procs

C35_LockFileIsAlwaysComplete ==
    [][\A p \in Procs :
          C35_Reads(p) => (content[path].kind = "full"
                           /\ result'[p] # "LockFileReadError")]_vars

\* C36: with the dry-run option the run does not write the timestamp file,
\* under OldCLI.main (post) and under CLIBase.main (timestamp_epilogue)
C36_DryRunWritesNoTimestamp ==
    cfg.dry_run => Count("write_timestamp", cli.log) = 0

\* C37: with the disable-locking option the run neither creates nor removes
\* the lock file, under CLIBase.main with LockMixin as under
\* ExtendedSimpleOption
C37_NoLockingWhenDisabled ==
    [][cfg.disable_locking => (path' = path /\ content' = content)]_vars

\* C38: across consecutive runs of OldCLI.main the stored timestamp changes
\* only in post() of a run whose do() returned no errors and that is no dry
\* run, and a run that reads its start timestamp from the file starts at the
\* current_time, in whole seconds, of the last run that wrote it
C38_StartsAtLastSuccess ==
    (cli.pc \in {"do", "post"} /\ cfg.start_timestamp = NoOption /\ cli.last_ok # <<>>)
        => cli.start_timestamp = cli.last_ok[1].sec
C38_ChangedBySuccessOnly ==
    read_timestamp(disk') # read_timestamp(disk)
        => (cli.pc = "post" /\ ~cli.errors /\ ~cfg.dry_run)
C38_TimestampFollowsLastSuccess ==
    []C38_StartsAtLastSuccess /\ [][C38_ChangedBySuccessOnly]_vars

\* C39: when stop() of a Sender in interval mode has ended, whatever the
\* queue held, the background thread has terminated and every message that
\* send() put on the queue has been handed to send_socket exactly once
C39_Handed(m) ==
    Cardinality({<<i, j>> \in (DOMAIN cli.sent) \X (1..MaxMsgs) :
                    j \in DOMAIN cli.sent[i] /\ cli.sent[i][j] = m})
C39_StopEndsTheThread ==
    cli.pc \in {"stopped", "raised"}
        => /\ cli.thread = "done"
           /\ \A i \in DOMAIN cli.queued : C39_Handed(cli.queued[i]) = 1
\* the same of a stop() that returned
C39_ReturnedStopEndsTheThread ==
    cli.pc = "stopped"
        => /\ cli.thread = "done"
           /\ \A i \in DOMAIN cli.queued : C39_Handed(cli.queued[i]) = 1

\* C40: in ConsumerCLI.do, update_shred_file(event) comes before the commit()
\* of the same message; commit() is called at most once per message, in
\* message order, never in dry-run mode, and for every event the run got
\* past when it is no dry run; and when do() has ended, by returning or by
\* raising, consumer.close(autocommit=False) was the last consumer call
C40_Commits == {k \in DOMAIN cli.calls : cli.calls[k].op = "commit"}
C40_UpdateBeforeCommit ==
    \A k \in C40_Commits :
        \E j \in 1..(k - 1) : cli.calls[j] = Call("update_shred_file", cli.calls[k].i)
C40_CommitOncePerEventInOrder ==
    /\ \A j, k \in C40_Commits : j < k => cli.calls[j].i < cli.calls[k].i
    /\ cfg.dry_run => C40_Commits = {}
    /\ ~cfg.dry_run =>
          \A i \in 1..cli.i :
              (cfg.msgs[i] = "event" /\ (i < cli.i \/ cli.how = "returned"))
                  => Count(Call("commit", i), cli.calls) = 1
C40_CloseIsLast ==
    cli.pc = "done"
        => /\ cli.calls # <<>>
           /\ cli.calls[Len(cli.calls)] = Call("close", 0)
           /\ Count(Call("close", 0), cli.calls) = 1
C40_CommitAfterUpdateThenClose ==
    /\ C40_UpdateBeforeCommit
    /\ C40_CommitOncePerEventInOrder
    /\ C40_CloseIsLast

====
